---- MODULE Spec2Model ----
(***************************************************************************)
(* BeTon: the MusicBrainz reconciliation path of MainWindow.               *)
(*                                                                         *)
(* Part I   album-mode matching of local files against a release           *)
(*          (MainWindow::MessageReceived, MSG_MB_APPLY_ALBUM worker).      *)
(* Part II  the window, its worker threads (MBSearch, MBApply,             *)
(*          CoverFetchMB) and the generation counter that cancels them.    *)
(***************************************************************************)
EXTENDS Integers, Sequences, FiniteSets, TLC

\* ------------------------------------------------------------------ bounds
MaxFiles == 3
MaxTracks == 3
\* Requests (search, apply, cancel) the window handles in one run.
MaxRequests == 2
MaxThreads == 3

\* ---------------------------------------------------------------- constants
\* std::vector<int> fileToTrackMap(files.size(), -1)
NoTrack == -1
\* if (durDiff < 15)
DurTolerance == 15

\* Track numbers a tag, a file name or a release position can carry (0: none).
TrackNumbers == {1, 2}
\* td.lengthSec of the local files and rel.tracks[k].length of the release.
FileLengths == {100}
TrackLengths == {110, 120}

\* One local file as pass 1 sees it: the tag ReadTags returns (td.track,
\* td.lengthSec) and the number ExtractTrackNumber finds in the leaf name.
FileDomain == [track : {0} \cup TrackNumbers, lengthSec : FileLengths,
               fnTrack : {0} \cup TrackNumbers]
\* One MBTrack: its position on the medium and its length in seconds.
TrackDomain == [track : TrackNumbers, length : TrackLengths]

\* A std::vector of n elements: indices 0 .. n-1.
Vec(n, S) == [0 .. n - 1 -> S]

VARIABLES
  nFiles,           \* files.size() of the apply worker's sorted file list
  tracks,           \* rel.tracks
  td,               \* what pass 1 read for each file it has visited
  fileToTrackMap,
  trackUsed,
  filesMatched,
  durationMismatch,
  nextTrackIdx,
  confident,
  mpc,              \* position of the worker in the matching code
  beyond            \* history: the kinds of pass-1 lookup ("tag", "name")
                    \* whose duration comparison was out of tolerance

mvars == <<nFiles, tracks, td, fileToTrackMap, trackUsed, filesMatched,
           durationMismatch, nextTrackIdx, confident, mpc, beyond>>

VARIABLES
  fMbSearchGeneration,
  statusText,        \* what UpdateStatus last showed
  fPendingFiles,
  fPendingRelease,
  fPendingCoverBlob,
  workers,           \* the threads LaunchThread started, in start order
  inbox,             \* the window's message queue (messages from threads)
  disk,              \* the tags stored in each file
  resetRunners,      \* BMessageRunners that will post MSG_RESET_STATUS
  matchers,          \* the MatcherWindows opened, by worker
  nReq,              \* requests handled so far
  mbResults,         \* searches whose MSG_MB_RESULTS went to the requester
  coverReplies       \* threads whose MSG_PROP_SET_COVER_DATA went to it

wvars == <<fMbSearchGeneration, statusText, fPendingFiles, fPendingRelease,
           fPendingCoverBlob, workers, inbox, disk, resetRunners, matchers,
           nReq, mbResults, coverReplies>>

\* The state of one caller of a MusicBrainzClient.  Time is counted in ticks
\* of 100 ms, the period of every snooze and poll of the client.
VARIABLES
  op,               \* the operation in progress: "none", "search", "release",
                    \* "best" or "cover"
  cpc,              \* the caller's position inside the operation
  cancel,           \* what shouldCancel() returns now
  sinceLastCall,    \* system_time() - fLastCall, in ticks, capped
  retries,
  polls,            \* the counter i of the poll loop or of the pause
  sizeHint,
  isReleaseGroup,
  maxRedirects,
  result,           \* "pending", "empty" (no data, false) or "data"
  sinceRequest,     \* history: ticks since the last metadata request started
  attempts,         \* history: queries SearchRecording has issued
  failure,          \* history: the failure that ended the last query
  killed,           \* history: the thread of the last request was killed
  threw,            \* history: an exception left the operation
  asked,            \* history: the sizeHint the caller passed
  fetches,          \* history: what each _FetchUrl call of FetchCover asked
                    \* for and returned
  requests          \* history: HTTP requests of the current _FetchUrl call

cvars == <<op, cpc, cancel, sinceLastCall, retries, polls, sizeHint,
           isReleaseGroup, maxRedirects, result, sinceRequest, attempts,
           failure, killed, threw, asked, fetches, requests>>

\* The flattening of a search result into hits.
VARIABLES
  meta,             \* meta.RecordingList(), as the service answered
  results,          \* what SearchRecording returns
  hpc               \* "idle", "meta" (the answer is in) or "done"

hvars == <<meta, results, hpc>>

\* A file's tags written and read back by TagSync.
VARIABLES
  file,             \* the tag container of the file, as TagLib holds it
  written,          \* the TagData given to WriteTagsToFile
  readBack,         \* out, the TagData ReadTags filled
  tpc               \* "idle", "start", "written" or "read"

tvars == <<file, written, readBack, tpc>>

\* The ID3v2 tag of an .mp3 file written twice with the same TagData.
VARIABLES
  id3,              \* the frames of the tag, by frame id, in list order
  id3Once,          \* history: the frames after the first write
  tagData,          \* td, the TagData written both times
  fpc               \* "idle", "start", "once" or "twice"

fvars == <<id3, id3Once, tagData, fpc>>

\* The attributes of a file's node written twice by WriteBfsAttributes.
VARIABLES
  attrs,            \* the attributes of the node, by name
  attrsOnce,        \* history: the attributes after the first call
  mirrored,         \* td, the TagData mirrored both times
  nodeOk,           \* the entry exists and BNode's InitCheck is B_OK
  refused,          \* the attributes whose WriteAttr or RemoveAttr failed in
                    \* the first and in the second call
  returned,         \* what the first and the second call returned
  bpc               \* "idle", "start", "once" or "twice"

bvars == <<attrs, attrsOnce, mirrored, nodeOk, refused, returned, bpc>>

\* The pictures of a file written by WriteEmbeddedCover and read by
\* ExtractEmbeddedCover.
VARIABLES
  media,            \* the pictures the file holds, by container
  mediaBefore,      \* history: the file before WriteEmbeddedCover
  blob,             \* data and size given to WriteEmbeddedCover
  mimeOpt,          \* the MIME type given, "" for none
  saves,            \* whether the file opens and save() succeeds
  coverRet,         \* what WriteEmbeddedCover returned, as a sequence
  outCover,         \* what ExtractEmbeddedCover returned, as a sequence
  kpc               \* "idle", "start", "written" or "read"

kvars == <<media, mediaBefore, blob, mimeOpt, saves, coverRet, outCover, kpc>>

\* A mapping applied to the files, by MSG_MATCH_RESULT and by the apply
\* thread's confident loop, each on its own copy of the files.
VARIABLES
  stored,           \* the files as found: tags, pictures and attributes
  manualFiles,      \* the files as MSG_MATCH_RESULT leaves them
  autoFiles,        \* the files as the apply thread leaves them
  applied,          \* the release, the cover blob and the mapping
  denied,           \* the writes the file system refuses
  failedWrites,     \* history: the calls that returned false, by path
  reported,         \* the status each path showed last
  ppc               \* <<"idle">>, <<"manual">>, <<"auto", i>> or <<"done">>

pvars == <<stored, manualFiles, autoFiles, applied, denied, failedWrites,
           reported, ppc>>

\* Two worker threads in calls on the one MusicBrainzClient of the window:
\* each caller's position, the ticks since fLastCall was stamped and since a
\* query was last sent, and ScopedSilence::fLocker.
VARIABLES callers, lastCallAge, startAge, fLocker
svars == <<callers, lastCallAge, startAge, fLocker>>

\* The vector the caller of FetchCover passes as outBytes: one entry per
\* byte, naming the status of the response the byte came from.
VARIABLES outBytes
ovars == <<outBytes>>

\* The variables of the specifications that follow the window's.
xvars == <<cvars, hvars, tvars, fvars, bvars, kvars, pvars, svars, ovars>>

vars == <<mvars, wvars, xvars>>

\* _RespectRateLimit: 1100000 microseconds, in ticks.
RateTicks == 11

\* The caller before its first operation: fLastCall has never been set, and
\* no request has gone out.
InitClient ==
  /\ op = "none"
  /\ cpc = "idle"
  /\ cancel = FALSE
  /\ sinceLastCall = RateTicks
  /\ retries = 0
  /\ polls = 0
  /\ sizeHint = 0
  /\ isReleaseGroup = FALSE
  /\ maxRedirects = 0
  /\ result = "empty"
  /\ sinceRequest = RateTicks
  /\ attempts = 0
  /\ failure = "none"
  /\ killed = FALSE
  /\ threw = FALSE
  /\ asked = 0
  /\ fetches = << >>
  /\ requests = 0

\* No search result is being flattened.
InitHits ==
  /\ meta = << >>
  /\ results = << >>
  /\ hpc = "idle"

\* No file is being tagged.
InitTags ==
  /\ file = << >>
  /\ written = << >>
  /\ readBack = << >>
  /\ tpc = "idle"

\* No tag is being written twice.
InitFrames ==
  /\ id3 = << >>
  /\ id3Once = << >>
  /\ tagData = << >>
  /\ fpc = "idle"

\* No attributes are being mirrored.
InitAttrs ==
  /\ attrs = << >>
  /\ attrsOnce = << >>
  /\ mirrored = << >>
  /\ nodeOk = TRUE
  /\ refused = << >>
  /\ returned = << >>
  /\ bpc = "idle"

\* No cover is being written.
InitCover ==
  /\ media = << >>
  /\ mediaBefore = << >>
  /\ blob = << >>
  /\ mimeOpt = ""
  /\ saves = TRUE
  /\ coverRet = << >>
  /\ outCover = << >>
  /\ kpc = "idle"

\* No mapping is being applied.
InitApply ==
  /\ stored = << >>
  /\ manualFiles = << >>
  /\ autoFiles = << >>
  /\ applied = << >>
  /\ denied = {}
  /\ failedWrites = << >>
  /\ reported = << >>
  /\ ppc = <<"idle">>

\* No worker has called the client.
InitShared ==
  /\ callers = << >>
  /\ lastCallAge = 0
  /\ startAge = 0
  /\ fLocker = "free"

\* std::vector<uint8_t> data; as the worker declares it.
InitBuffer == outBytes = << >>

InitOthers == InitClient /\ InitHits /\ InitTags /\ InitFrames /\ InitAttrs /\ InitCover /\ InitApply /\ InitShared /\ InitBuffer

Abs(x) == IF x < 0 THEN -x ELSE x

\* Mutant of FirstUnused: the lookup forgets the !trackUsed[k] test.
FirstUnusedIgnoringUsed(trks, used, n) ==
  LET S == {k \in DOMAIN trks : trks[k].track = n}
  IN IF S = {} THEN NoTrack ELSE CHOOSE k \in S : \A j \in S : k <= j

\* for (k = 0; k < rel.tracks.size(); k++)
\*   if (!trackUsed[k] && rel.tracks[k].track == n) { ...; break; }
FirstUnused(trks, used, n) ==
  LET S == {k \in DOMAIN trks : ~used[k] /\ trks[k].track = n}
  IN IF S = {} THEN NoTrack ELSE CHOOSE k \in S : \A j \in S : k <= j

\* Mutant of DurationOk: the comparison is turned round.
DurationOkInverted(trackLen, fileLen) ==
  Abs(trackLen - fileLen) > DurTolerance

\* durDiff < 15
DurationOk(trackLen, fileLen) == Abs(trackLen - fileLen) < DurTolerance

\* Lookup by the embedded track number: the index found (or NoTrack) and
\* whether the comparison recorded a duration mismatch.
ByEmbedded(f, trks, used) ==
  IF f.track > 0
  THEN LET k == FirstUnused(trks, used, f.track)
       IN IF k = NoTrack
          THEN [idx |-> NoTrack, mismatch |-> FALSE]
          ELSE IF DurationOk(trks[k].length, f.lengthSec)
               THEN [idx |-> k, mismatch |-> FALSE]
               ELSE [idx |-> NoTrack, mismatch |-> TRUE]
  ELSE [idx |-> NoTrack, mismatch |-> FALSE]

\* Mutant of ByFileName: the duration is not compared.
ByFileNameAnyDuration(f, trks, used) ==
  IF f.fnTrack > 0 THEN FirstUnused(trks, used, f.fnTrack) ELSE NoTrack

\* Lookup by the number in the file name: no mismatch is recorded here.
ByFileName(f, trks, used) ==
  IF f.fnTrack > 0
  THEN LET k == FirstUnused(trks, used, f.fnTrack)
       IN IF k # NoTrack /\ DurationOk(trks[k].length, f.lengthSec)
          THEN k ELSE NoTrack
  ELSE NoTrack

\* The body of the strong-signal loop for one file.
StrongSignal(f, trks, used) ==
  LET e == ByEmbedded(f, trks, used)
      best == IF e.idx # NoTrack THEN e.idx ELSE ByFileName(f, trks, used)
  IN [idx |-> best, mismatch |-> e.mismatch]

\* History only: which of the two lookups of one file compared the file's
\* duration with a track and found durDiff >= 15.
ComparedBeyond(f, trks, used) ==
  LET ke == IF f.track > 0 THEN FirstUnused(trks, used, f.track) ELSE NoTrack
      kn == IF f.fnTrack > 0 THEN FirstUnused(trks, used, f.fnTrack)
            ELSE NoTrack
      Off(k) == k # NoTrack
                /\ Abs(trks[k].length - f.lengthSec) >= DurTolerance
      eMatch == ke # NoTrack /\ ~Off(ke)
  IN (IF Off(ke) THEN {"tag"} ELSE {})
     \cup (IF ~eMatch /\ Off(kn) THEN {"name"} ELSE {})

\* while (nextTrackIdx < size && trackUsed[nextTrackIdx]) nextTrackIdx++;
RECURSIVE SkipUsed(_, _)
SkipUsed(used, n) ==
  IF n \in DOMAIN used /\ used[n] THEN SkipUsed(used, n + 1) ELSE n

\* Mutant of Verdict: the allMapped conjunct is dropped.
VerdictWithoutAllMapped(map, mismatch, matched) ==
  /\ ~mismatch
  /\ matched >= (Cardinality(DOMAIN map) \div 2)

\* allMapped && !durationMismatch && filesMatched >= files.size() / 2
Verdict(map, mismatch, matched) ==
  /\ \A i \in DOMAIN map : map[i] # NoTrack
  /\ ~mismatch
  /\ matched >= (Cardinality(DOMAIN map) \div 2)

\* Mutant of FallbackFill: the bound of the walk is off by one, so the last
\* track of the release is never handed out.
RECURSIVE FallbackFillStopsEarly(_, _, _, _)
FallbackFillStopsEarly(map, used, next, i) ==
  IF i \notin DOMAIN map
  THEN [map |-> map, used |-> used, next |-> next]
  ELSE IF map[i] # NoTrack
       THEN FallbackFillStopsEarly(map, used, next, i + 1)
       ELSE LET n == SkipUsed(used, next)
            IN IF n + 1 \in DOMAIN used
               THEN FallbackFillStopsEarly([map EXCEPT ![i] = n],
                                           [used EXCEPT ![n] = TRUE], n, i + 1)
               ELSE FallbackFillStopsEarly(map, used, n, i + 1)

\* The fallback-fill loop from file i on: (map, used, next) after it.
RECURSIVE FallbackFill(_, _, _, _)
FallbackFill(map, used, next, i) ==
  IF i \notin DOMAIN map
  THEN [map |-> map, used |-> used, next |-> next]
  ELSE IF map[i] # NoTrack
       THEN FallbackFill(map, used, next, i + 1)
       ELSE LET n == SkipUsed(used, next)
            IN IF n \in DOMAIN used
               THEN FallbackFill([map EXCEPT ![i] = n],
                                 [used EXCEPT ![n] = TRUE], n, i + 1)
               ELSE FallbackFill(map, used, n, i + 1)

\* One iteration of the strong-signal loop on file i, whose tag and name
\* yield f: st holds fileToTrackMap, trackUsed, filesMatched and
\* durationMismatch.
StrongSignalStep(st, i, f, trks) ==
  LET r == StrongSignal(f, trks, st.used)
  IN IF r.idx # NoTrack
     THEN [map |-> [st.map EXCEPT ![i] = r.idx],
           used |-> [st.used EXCEPT ![r.idx] = TRUE],
           matched |-> st.matched + 1,
           mismatch |-> (st.mismatch \/ r.mismatch)]
     ELSE [st EXCEPT !.mismatch = (st.mismatch \/ r.mismatch)]

\* The strong-signal loop from file i on.
RECURSIVE StrongSignalLoop(_, _, _, _)
StrongSignalLoop(fs, trks, st, i) ==
  IF i \notin DOMAIN fs THEN st
  ELSE StrongSignalLoop(fs, trks, StrongSignalStep(st, i, fs[i], trks), i + 1)

\* Both passes and the verdict for the files fs (what ReadTags and the file
\* names give) against the release tracks trks.
AlbumMatch(fs, trks) ==
  LET p1 == StrongSignalLoop(fs, trks,
              [map |-> [i \in DOMAIN fs |-> NoTrack],
               used |-> [k \in DOMAIN trks |-> FALSE],
               matched |-> 0, mismatch |-> FALSE], 0)
      p2 == FallbackFill(p1.map, p1.used, 0, 0)
  IN [map |-> p2.map,
      confident |-> Verdict(p2.map, p1.mismatch, p1.matched)]

InitMatching ==
  /\ nFiles \in 1 .. MaxFiles
  /\ tracks \in UNION {Vec(m, TrackDomain) : m \in 0 .. MaxTracks}
  /\ td = << >>
  /\ fileToTrackMap = [i \in 0 .. nFiles - 1 |-> NoTrack]
  /\ trackUsed = [k \in DOMAIN tracks |-> FALSE]
  /\ filesMatched = 0
  /\ durationMismatch = FALSE
  /\ nextTrackIdx = 0
  /\ confident = FALSE
  /\ mpc = <<"pass1", 0>>
  /\ beyond = {}

\* One iteration of the strong-signal loop: ReadTags and ExtractTrackNumber
\* yield f for file i, then the two lookups run.
StrongSignalPass ==
  /\ mpc[1] = "pass1"
  /\ \E f \in FileDomain :
       LET i == mpc[2]
           n == StrongSignalStep([map |-> fileToTrackMap, used |-> trackUsed,
                                  matched |-> filesMatched,
                                  mismatch |-> durationMismatch],
                                 i, f, tracks)
       IN /\ td' = [j \in 0 .. i |-> IF j = i THEN f ELSE td[j]]
          /\ fileToTrackMap' = n.map
          /\ trackUsed' = n.used
          /\ filesMatched' = n.matched
          /\ durationMismatch' = n.mismatch
          /\ mpc' = IF i + 1 < nFiles THEN <<"pass1", i + 1>>
                    ELSE <<"pass2", 0>>
          /\ beyond' = beyond \cup ComparedBeyond(f, tracks, trackUsed)
  /\ UNCHANGED <<nFiles, tracks, nextTrackIdx, confident, wvars, xvars>>

\* The fallback-fill loop.
FallbackFillPass ==
  /\ mpc[1] = "pass2"
  /\ LET r == FallbackFill(fileToTrackMap, trackUsed, nextTrackIdx, 0)
     IN /\ fileToTrackMap' = r.map
        /\ trackUsed' = r.used
        /\ nextTrackIdx' = r.next
  /\ mpc' = <<"verdict", 0>>
  /\ UNCHANGED <<nFiles, tracks, td, filesMatched, durationMismatch,
                 confident, beyond, wvars, xvars>>

ComputeConfident ==
  /\ mpc[1] = "verdict"
  /\ confident' = Verdict(fileToTrackMap, durationMismatch, filesMatched)
  /\ mpc' = <<"done", 0>>
  /\ UNCHANGED <<nFiles, tracks, td, fileToTrackMap, trackUsed, filesMatched,
                 durationMismatch, nextTrackIdx, beyond, wvars, xvars>>

(***************************************************************************)
(* Part II: the window and its worker threads.                             *)
(***************************************************************************)
\* The audio files of one directory, and the sorted file lists a request can
\* carry in its "file" entries.
Paths == {"p1", "p2"}
FileLists == {(0 :> "p1")}
\* The sorted listing of the directory (single file selected in album mode).
DirFiles == (0 :> "p1" @@ 1 :> "p2")

\* The recording the requester selected (msg "id") and the release id the
\* service knows ("" where the code has an empty BString); RelId stands for
\* an id of full length, which the cover thread accepts from a tag.
RecId == "r1"
RelId == "rel"

MBTrack(n, len, rec) == [track |-> n, length |-> len, recordingId |-> rec]
\* MBRelease as GetReleaseDetails leaves it when the query fails.
FailedRelease == [album |-> "", releaseGroupId |-> "", tracks |-> << >>]
\* The releases the service may answer with.
Releases ==
  { [album |-> "A", releaseGroupId |-> "g",
     tracks |-> (0 :> MBTrack(1, 110, "r1") @@ 1 :> MBTrack(2, 110, "r2"))],
    [album |-> "A", releaseGroupId |-> "g",
     tracks |-> (0 :> MBTrack(1, 120, "r1") @@ 1 :> MBTrack(2, 110, "r2"))],
    FailedRelease }
\* The hit lists SearchRecording may return: the release id of each hit.
HitLists == {<< >>, <<RelId>>}

\* The tag of one file on disk, and the number in its name.
DiskTag(trk, fn) ==
  [track |-> trk, lengthSec |-> 100, fnTrack |-> fn, album |-> "old",
   mbAlbumID |-> "", mbTrackID |-> "", cover |-> FALSE]
InitialDisks == { ("p1" :> DiskTag(1, 0) @@ "p2" :> DiskTag(2, 0)) }

\* int retries = 3
SearchRetries == 3

\* A thread started by LaunchThread with what its lambda captured (gen, files,
\* albumMode, relId, path) and its locals.
NewWorker(kind, gen, fs, album, relId, path) ==
  [kind |-> kind, gen |-> gen,
   pc |-> IF kind = "search" THEN "s_call" ELSE "start",
   call |-> IF kind = "search" THEN "search" ELSE "none",
   phase |-> IF kind = "search" THEN "entry" ELSE "none",
   files |-> fs, albumMode |-> album, relId |-> relId, path |-> path,
   rel |-> FailedRelease, hasCover |-> FALSE, sized |-> FALSE,
   retries |-> SearchRetries, hits |-> << >>, idx |-> 0, map |-> << >>,
   confident |-> FALSE,
   net |-> FALSE,       \* history: the thread issued a network request
   wrote |-> FALSE,     \* history: the thread wrote to a file
   handed |-> FALSE,    \* history: it opened a matcher and stored the release
   parent |-> 0,        \* history: the thread whose message started it
   first |-> "none"]    \* history: what its first checkpoint found

Msg(what, w, gen, hits, text, path) ==
  [what |-> what, w |-> w, gen |-> gen, hits |-> hits, text |-> text,
   path |-> path]
StatusMsg(w, text) == Msg("MSG_STATUS_UPDATE", w, 0, << >>, text, "")

Live == {w \in DOMAIN workers : workers[w].pc # "done"}

\* LaunchThread(name, func): once MaxThreads threads were spawned
\* spawn_thread fails and the lambda is deleted unrun.
LaunchThread(wr) ==
  IF Len(workers) < MaxThreads THEN Append(workers, wr) ELSE workers

\* The generation checks of the threads. The counter is declared outside the
\* sources at hand; a thread's read of it is taken to see the window's last
\* write.
\* Mutant of Stale: the checkpoint only reacts to a smaller generation.
StaleOnlyIfSmaller(gen) == fMbSearchGeneration < gen

\* abortCheck / the inline checkpoints: fMbSearchGeneration != gen
Stale(gen) == fMbSearchGeneration # gen

\* Mutant of CompletionIsCurrent: the receiver accepts every completion.
CompletionAlwaysCurrent(gen) == TRUE

\* MSG_MB_SEARCH_COMPLETE: !(gen != fMbSearchGeneration)
CompletionIsCurrent(gen) == gen = fMbSearchGeneration

Init ==
  /\ fMbSearchGeneration = 0
  /\ statusText = "Loading Music Library..."
  /\ fPendingFiles = << >>
  /\ fPendingRelease = [relId |-> "", rel |-> FailedRelease]
  /\ fPendingCoverBlob = FALSE
  /\ workers = << >>
  /\ inbox = << >>
  /\ disk \in InitialDisks
  /\ resetRunners = 0
  /\ matchers = {}
  /\ nReq = 0
  /\ mbResults = {}
  /\ coverReplies = {}
  /\ InitOthers
  /\ nFiles = 1
  /\ tracks = << >>
  /\ td = << >>
  /\ fileToTrackMap = (0 :> NoTrack)
  /\ trackUsed = << >>
  /\ filesMatched = 0
  /\ durationMismatch = FALSE
  /\ nextTrackIdx = 0
  /\ confident = FALSE
  /\ mpc = <<"idle", 0>>
  /\ beyond = {}

\* ------------------------------------------------------------ the window
\* MSG_MB_SEARCH
MbSearch ==
  /\ nReq < MaxRequests
  /\ \E ctx \in {DirFiles} :
       /\ fPendingFiles' = ctx
       /\ fMbSearchGeneration' = fMbSearchGeneration + 1
       /\ statusText' = "Searching on MusicBrainz..."
       /\ workers' = LaunchThread(
            NewWorker("search", fMbSearchGeneration + 1, << >>, FALSE, "", ""))
  /\ nReq' = nReq + 1
  /\ UNCHANGED <<fPendingRelease, fPendingCoverBlob, inbox, disk, resetRunners,
                 matchers, mbResults, coverReplies, mvars, xvars>>

\* MSG_MB_CANCEL
MbCancel ==
  /\ nReq < MaxRequests
  /\ fMbSearchGeneration' = fMbSearchGeneration + 1
  /\ statusText' = "Cancelled by user."
  /\ resetRunners' = resetRunners + 1
  /\ nReq' = nReq + 1
  /\ UNCHANGED <<fPendingFiles, fPendingRelease, fPendingCoverBlob, workers,
                 inbox, disk, matchers, mbResults, coverReplies, mvars, xvars>>

\* MSG_RESET_STATUS, posted by a runner of MSG_MB_CANCEL
ResetStatus ==
  /\ resetRunners > 0
  /\ resetRunners' = resetRunners - 1
  /\ statusText' = "Library"
  /\ UNCHANGED <<fMbSearchGeneration, fPendingFiles, fPendingRelease,
                 fPendingCoverBlob, workers, inbox, disk, matchers, nReq,
                 mbResults, coverReplies, mvars, xvars>>

\* MSG_MB_APPLY / MSG_MB_APPLY_ALBUM with a non-empty file list
MbApply ==
  /\ nReq < MaxRequests
  /\ \E albumMode \in BOOLEAN, relId \in {"", RelId}, fs \in FileLists :
       workers' = LaunchThread(
         NewWorker("apply", fMbSearchGeneration, fs, albumMode, relId, ""))
  /\ statusText' = "Hole Metadaten von MusicBrainz..."
  /\ nReq' = nReq + 1
  /\ UNCHANGED <<fMbSearchGeneration, fPendingFiles, fPendingRelease,
                 fPendingCoverBlob, inbox, disk, resetRunners, matchers,
                 mbResults, coverReplies, mvars, xvars>>

\* MSG_MB_SEARCH_COMPLETE
SearchComplete ==
  /\ inbox # << >>
  /\ Head(inbox).what = "MSG_MB_SEARCH_COMPLETE"
  /\ LET m == Head(inbox)
     IN IF ~CompletionIsCurrent(m.gen)
        THEN UNCHANGED <<statusText, mbResults>>
        ELSE /\ statusText' = IF m.hits = << >>
                              THEN "MusicBrainz: Nothing found."
                              ELSE "MusicBrainz: hits."
             /\ mbResults' = mbResults \cup {m.w}
  /\ inbox' = Tail(inbox)
  /\ UNCHANGED <<fMbSearchGeneration, fPendingFiles, fPendingRelease,
                 fPendingCoverBlob, workers, disk, resetRunners, matchers,
                 nReq, coverReplies, mvars, xvars>>

\* MSG_STATUS_UPDATE
StatusUpdate ==
  /\ inbox # << >>
  /\ Head(inbox).what = "MSG_STATUS_UPDATE"
  /\ statusText' = Head(inbox).text
  /\ inbox' = Tail(inbox)
  /\ UNCHANGED <<fMbSearchGeneration, fPendingFiles, fPendingRelease,
                 fPendingCoverBlob, workers, disk, resetRunners, matchers,
                 nReq, mbResults, coverReplies, mvars, xvars>>

\* MSG_COVER_FETCH_MB
CoverFetchMb ==
  /\ inbox # << >>
  /\ Head(inbox).what = "MSG_COVER_FETCH_MB"
  /\ workers' = LaunchThread(
       [NewWorker("cover", fMbSearchGeneration, << >>, FALSE, "",
                  Head(inbox).path) EXCEPT !.parent = Head(inbox).w])
  /\ inbox' = Tail(inbox)
  /\ UNCHANGED <<fMbSearchGeneration, statusText, fPendingFiles,
                 fPendingRelease, fPendingCoverBlob, disk, resetRunners,
                 matchers, nReq, mbResults, coverReplies,
                 mvars, xvars>>

\* The tag a file holds after the album-mode write of track trk
\* (auto-apply loop and MSG_MATCH_RESULT write the same fields).
AlbumTag(old, rel, trk, relId, cover) ==
  [old EXCEPT !.track = trk.track, !.album = rel.album, !.mbAlbumID = relId,
              !.mbTrackID = trk.recordingId,
              !.cover = (old.cover \/ cover)]

\* The disk after the files fs are written from map, from file i on.
RECURSIVE WriteMapped(_, _, _, _, _, _, _)
WriteMapped(d, fs, map, rel, relId, cover, i) ==
  IF i \notin DOMAIN fs THEN d
  ELSE IF map[i] \in DOMAIN rel.tracks
       THEN WriteMapped([d EXCEPT ![fs[i]] =
                           AlbumTag(d[fs[i]], rel, rel.tracks[map[i]], relId,
                                    cover)],
                        fs, map, rel, relId, cover, i + 1)
       ELSE WriteMapped(d, fs, map, rel, relId, cover, i + 1)

\* MSG_MATCH_RESULT: the user confirms the mapping shown by a MatcherWindow.
MatchResult ==
  /\ \E m \in matchers :
       /\ disk' = WriteMapped(disk, m.files, m.map, fPendingRelease.rel,
                                 fPendingRelease.relId, fPendingCoverBlob, 0)
          /\ matchers' = matchers \ {m}
  /\ statusText' = "Metadata applied successfully (Manual)."
  /\ fPendingFiles' = << >>
  /\ fPendingCoverBlob' = FALSE
  /\ UNCHANGED <<fMbSearchGeneration, fPendingRelease, workers, inbox,
                 resetRunners, nReq, mbResults, coverReplies,
                 mvars, xvars>>

\* ------------------------------------------------------------ the threads
\* A thread that returned: its locals are gone, its history stays.
Done(wr) ==
  [NewWorker(wr.kind, wr.gen, << >>, wr.albumMode, "", "") EXCEPT
     !.pc = "done", !.call = "none", !.phase = "none",
     !.confident = wr.confident, !.net = wr.net,
     !.wrote = wr.wrote, !.handed = wr.handed, !.first = wr.first,
     !.parent = wr.parent]

\* History: whether the generation had moved on when the thread reached its
\* first checkpoint.
FirstCheck(wr) ==
  IF wr.first # "none" THEN wr
  ELSE [wr EXCEPT !.first = IF fMbSearchGeneration # wr.gen THEN "stale"
                            ELSE "fresh"]

\* Entering a client operation from the call site pc.
StartCall(wr, call, pc, sized) ==
  [wr EXCEPT !.call = call, !.phase = "entry", !.pc = pc, !.sized = sized,
             !.retries = SearchRetries]

\* What each client operation returns when it is cancelled or fails.
EmptyResult(call) ==
  CASE call = "search"  -> << >>
    [] call = "best"    -> ""
    [] call = "release" -> FailedRelease
    [] call = "cover"   -> FALSE

\* What each client operation may return when its request completes.
CallResults(call) ==
  CASE call = "search"  -> HitLists
    [] call = "best"    -> {"", RelId}
    [] call = "release" -> Releases
    [] call = "cover"   -> BOOLEAN

\* The thread after the client operation it is in returned v.
AfterCall(wr, v) ==
  LET r == [wr EXCEPT !.call = "none", !.phase = "none"]
  IN CASE wr.pc = "s_call"   -> [r EXCEPT !.hits = v, !.pc = "s_post"]
       [] wr.pc = "a_best"   -> [r EXCEPT !.relId = v, !.pc = "a_chk_best"]
       [] wr.pc = "a_rel"    -> [r EXCEPT !.rel = v, !.pc = "a_chk_rel"]
       [] wr.pc = "a_cov1"   -> [r EXCEPT !.hasCover = v, !.pc = "a_chk_cov1"]
       [] wr.pc = "a_cov2"   -> [r EXCEPT !.hasCover = v, !.pc = "a_chk_cov2"]
       [] wr.pc = "c_search" -> [r EXCEPT !.hits = v, !.pc = "c_chk_search"]
       [] wr.pc = "c_cov"    ->
            [r EXCEPT !.hasCover = v,
                      !.pc = IF v THEN "c_chk_ok" ELSE "c_chk_fail"]
       [] wr.pc = "c_rel"    -> [r EXCEPT !.rel = v, !.pc = "c_chk_rel"]
       [] wr.pc = "c_cov_g"  ->
            [r EXCEPT !.hasCover = v,
                      !.pc = IF v THEN "c_chk_ok" ELSE "c_ready"]

\* A step that changes only the thread w.
Local(w, r) ==
  /\ workers' = [workers EXCEPT ![w] = r]
  /\ UNCHANGED <<fMbSearchGeneration, statusText, fPendingFiles,
                 fPendingRelease, fPendingCoverBlob, inbox, disk,
                 resetRunners, matchers, nReq, mbResults, coverReplies, mvars, xvars>>

\* A step in which the thread w posts msgs to the window.
Post(w, r, msgs) ==
  /\ workers' = [workers EXCEPT ![w] = r]
  /\ inbox' = inbox \o msgs
  /\ UNCHANGED <<fMbSearchGeneration, statusText, fPendingFiles,
                 fPendingRelease, fPendingCoverBlob, disk, resetRunners,
                 matchers, nReq, mbResults, coverReplies, mvars, xvars>>

\* abortStatus(); return;
Abort(w) ==
  Post(w, Done(FirstCheck(workers[w])), <<StatusMsg(w, "Cancelled.")>>)

\* Entry of SearchRecording, BestReleaseForRecording, GetReleaseDetails and
\* FetchCover: if (shouldCancel && shouldCancel()) return <empty>;
\* otherwise the request goes out after _RespectRateLimit (SearchRecording
\* enters its attempt loop instead).
ClientEntry(w) ==
  /\ w \in DOMAIN workers
  /\ workers[w].phase = "entry"
  /\ LET wr == FirstCheck(workers[w])
     IN IF Stale(wr.gen)
        THEN Local(w, AfterCall(wr, EmptyResult(wr.call)))
        ELSE IF wr.call = "search"
             THEN Local(w, [wr EXCEPT !.phase = "attempt"])
             ELSE Local(w, [wr EXCEPT !.phase = "poll", !.net = TRUE])

\* SearchRecording, one attempt: the cancel check that opens the body of the
\* while (retries > 0) loop, then the request.
SearchAttempt(w) ==
  /\ w \in DOMAIN workers
  /\ workers[w].phase = "attempt"
  /\ LET wr == workers[w]
     IN IF Stale(wr.gen)
        THEN Local(w, AfterCall(wr, << >>))
        ELSE Local(w, [wr EXCEPT !.phase = "poll", !.net = TRUE])

\* The wait for the request: RunQueryWithTimeout polls shouldCancel and kills
\* the query thread; _FetchUrl waits without a cancel check.
ClientPoll(w) ==
  /\ w \in DOMAIN workers
  /\ workers[w].phase = "poll"
  /\ LET wr == workers[w]
         cancelled == wr.call # "cover" /\ Stale(wr.gen)
     IN \/ /\ cancelled
           /\ Local(w, AfterCall(wr, EmptyResult(wr.call)))
        \/ /\ ~cancelled
           /\ \E v \in CallResults(wr.call) : Local(w, AfterCall(wr, v))
        \/ /\ ~cancelled
           /\ wr.call = "search"
           /\ IF wr.retries = 1
              THEN Local(w, AfterCall([wr EXCEPT !.retries = 0], << >>))
              ELSE Local(w, [wr EXCEPT !.retries = @ - 1, !.phase = "attempt"])
        \/ /\ wr.call = "cover"
           /\ wr.sized
           /\ Local(w, [wr EXCEPT !.sized = FALSE, !.phase = "entry"])

\* MBSearch thread: the completion it posts after SearchRecording returned.
SearchPost(w) ==
  /\ w \in DOMAIN workers
  /\ workers[w].pc = "s_post"
  /\ LET wr == workers[w]
     IN Post(w, Done(wr),
             <<Msg("MSG_MB_SEARCH_COMPLETE", w, wr.gen, wr.hits, "", "")>>)

\* MBApply thread: first checkpoint, then the release is resolved or fetched.
ApplyStart(w) ==
  /\ w \in DOMAIN workers
  /\ workers[w].kind = "apply" /\ workers[w].pc = "start"
  /\ LET wr == FirstCheck(workers[w])
     IN IF Stale(wr.gen) THEN Abort(w)
        ELSE IF wr.relId = ""
             THEN Local(w, StartCall(wr, "best", "a_best", FALSE))
             ELSE Local(w, StartCall(wr, "release", "a_rel", FALSE))

\* MBApply thread: checkpoint after BestReleaseForRecording.
ApplyAfterBest(w) ==
  /\ w \in DOMAIN workers
  /\ workers[w].pc = "a_chk_best"
  /\ LET wr == workers[w]
     IN IF Stale(wr.gen) THEN Abort(w)
        ELSE IF wr.relId = ""
             THEN Post(w, Done(wr),
                       <<StatusMsg(w, "Error: Release ID not found.")>>)
             ELSE Local(w, StartCall(wr, "release", "a_rel", FALSE))

\* MBApply thread: checkpoint after GetReleaseDetails, then the cover of the
\* release group.
ApplyAfterRelease(w) ==
  /\ w \in DOMAIN workers
  /\ workers[w].pc = "a_chk_rel"
  /\ LET wr == workers[w]
     IN IF Stale(wr.gen) THEN Abort(w)
        ELSE IF wr.rel.releaseGroupId # ""
             THEN Local(w, StartCall(wr, "cover", "a_cov1", FALSE))
             ELSE Local(w, [wr EXCEPT !.pc = "a_chk_cov1"])

\* MBApply thread: checkpoint after the first FetchCover, then the cover of
\* the release.
ApplyAfterCover1(w) ==
  /\ w \in DOMAIN workers
  /\ workers[w].pc = "a_chk_cov1"
  /\ LET wr == workers[w]
     IN IF Stale(wr.gen) THEN Abort(w)
        ELSE IF ~wr.hasCover /\ wr.relId # ""
             THEN Local(w, StartCall(wr, "cover", "a_cov2", FALSE))
             ELSE Local(w, [wr EXCEPT !.pc = "a_chk_cov2"])

\* Mutant of AlbumBranch: the write loop runs whatever the verdict.
AlbumBranchAlwaysWrites(isConfident) == "a_write"

\* if (confident) { write loop } else { MatcherWindow, pending release }
AlbumBranch(isConfident) == IF isConfident THEN "a_write" ELSE "a_matcher"

\* MBApply thread: last checkpoint; a single file in album mode is replaced
\* by the audio files of its directory; album mode sorts and matches.
ApplyAfterCover2(w) ==
  /\ w \in DOMAIN workers
  /\ workers[w].pc = "a_chk_cov2"
  /\ LET wr == workers[w]
         fs == IF wr.albumMode /\ Cardinality(DOMAIN wr.files) = 1
               THEN DirFiles ELSE wr.files
         m == AlbumMatch([i \in DOMAIN fs |-> disk[fs[i]]], wr.rel.tracks)
     IN IF Stale(wr.gen) THEN Abort(w)
        ELSE IF wr.albumMode
             THEN Local(w, [wr EXCEPT !.files = fs, !.map = m.map,
                                      !.confident = m.confident, !.idx = 0,
                                      !.pc = AlbumBranch(m.confident)])
             ELSE Local(w, [wr EXCEPT !.idx = 0, !.pc = "a_write"])

\* The tag a file holds after the track-mode write.
TrackTag(old, rel, relId, cover) ==
  LET S == {k \in DOMAIN rel.tracks : rel.tracks[k].recordingId = RecId}
      k0 == CHOOSE k \in S : \A j \in S : k <= j
  IN [old EXCEPT !.album = rel.album, !.mbAlbumID = relId,
                 !.mbTrackID = RecId,
                 !.track = IF S # {} THEN rel.tracks[k0].track ELSE @,
                 !.cover = (old.cover \/ cover)]

\* MBApply thread: ReadTags, WriteTags, WriteEmbeddedCover,
\* WriteBfsAttributes and MSG_MEDIA_ITEM_FOUND for the file at idx.
ApplyWrite(w) ==
  /\ w \in DOMAIN workers
  /\ workers[w].pc = "a_write"
  /\ LET wr == workers[w]
         p == wr.files[wr.idx]
         last == wr.idx + 1 \notin DOMAIN wr.files
         skip == wr.albumMode /\ wr.map[wr.idx] < 0
     IN /\ disk' = [disk EXCEPT ![p] =
             IF skip THEN @
             ELSE IF wr.albumMode
                  THEN AlbumTag(@, wr.rel, wr.rel.tracks[wr.map[wr.idx]],
                                wr.relId, wr.hasCover)
                  ELSE TrackTag(@, wr.rel, wr.relId, wr.hasCover)]
        /\ workers' = [workers EXCEPT ![w] =
             [wr EXCEPT !.idx = @ + 1, !.wrote = (@ \/ ~skip),
                        !.pc = IF last THEN "a_finish" ELSE "a_write"]]
  /\ UNCHANGED <<fMbSearchGeneration, statusText, fPendingFiles,
                 fPendingRelease, fPendingCoverBlob, inbox, resetRunners,
                 matchers, nReq, mbResults, coverReplies, mvars, xvars>>

\* The MatcherWindow the thread w opens: the files, the mapping, and the
\* release whose tracks it lists (with the cover the thread fetched for it).
Matcher(w, wr) ==
  [w |-> w, files |-> wr.files, map |-> wr.map,
   release |-> [relId |-> wr.relId, rel |-> wr.rel], cover |-> wr.hasCover]

\* MBApply thread, not confident: new MatcherWindow(files, trackInfos,
\* fileToTrackMap, this)
ApplyOpenMatcher(w) ==
  /\ w \in DOMAIN workers
  /\ workers[w].pc = "a_matcher"
  /\ LET wr == workers[w]
     IN /\ matchers' = matchers \cup {Matcher(w, wr)}
        /\ workers' = [workers EXCEPT ![w] = [wr EXCEPT !.pc = "a_pending"]]
  /\ UNCHANGED <<fMbSearchGeneration, statusText, fPendingFiles,
                 fPendingRelease, fPendingCoverBlob, inbox, disk,
                 resetRunners, nReq, mbResults, coverReplies, mvars, xvars>>

\* MBApply thread, not confident: fPendingRelease = rel;
\* fPendingCoverBlob = coverBlob; under the window lock.
ApplyStorePending(w) ==
  /\ w \in DOMAIN workers
  /\ workers[w].pc = "a_pending"
  /\ LET wr == workers[w]
     IN /\ fPendingRelease' = [relId |-> wr.relId, rel |-> wr.rel]
        /\ fPendingCoverBlob' = wr.hasCover
        /\ workers' = [workers EXCEPT ![w] =
             [wr EXCEPT !.handed = TRUE, !.pc = "a_finish"]]
  /\ UNCHANGED <<fMbSearchGeneration, statusText, fPendingFiles, inbox, disk,
                 resetRunners, matchers, nReq, mbResults, coverReplies, mvars, xvars>>

\* MBApply thread: the status messages and the MSG_COVER_FETCH_MB it ends
\* with.
ApplyFinish(w) ==
  /\ w \in DOMAIN workers
  /\ workers[w].pc = "a_finish"
  /\ LET wr == workers[w]
         auto == IF wr.albumMode /\ wr.confident
                 THEN <<StatusMsg(w,
                          "Metadata applied successfully (Auto-Match).")>>
                 ELSE << >>
     IN Post(w, Done(wr),
             auto \o <<StatusMsg(w, "Metadaten erfolgreich gespeichert."),
                       Msg("MSG_COVER_FETCH_MB", w, 0, << >>, "",
                           wr.files[0])>>)

\* CoverFetchMB thread: first checkpoint and ReadTags.
CoverStart(w) ==
  /\ w \in DOMAIN workers
  /\ workers[w].kind = "cover" /\ workers[w].pc = "start"
  /\ LET wr == FirstCheck(workers[w])
     IN IF Stale(wr.gen) THEN Local(w, Done(wr))
        ELSE Local(w, [wr EXCEPT !.relId = disk[wr.path].mbAlbumID,
                                 !.pc = "c_chk_read"])

\* CoverFetchMB thread: the checkpoints between its client operations.
CoverCheckpoint(w) ==
  /\ w \in DOMAIN workers
  /\ workers[w].pc \in {"c_chk_read", "c_chk_search", "c_chk_pre",
                        "c_chk_fail", "c_chk_rel"}
  /\ LET wr == workers[w]
         found == IF wr.hits # << >> THEN wr.hits[1] ELSE ""
     IN IF Stale(wr.gen) THEN Local(w, Done(wr))
        ELSE CASE wr.pc = "c_chk_read" ->
                    IF wr.relId = ""
                    THEN Local(w, StartCall(wr, "search", "c_search", FALSE))
                    ELSE Local(w, [wr EXCEPT !.pc = "c_chk_pre"])
               [] wr.pc = "c_chk_search" ->
                    IF found = "" THEN Local(w, Done(wr))
                    ELSE Local(w, [wr EXCEPT !.relId = found,
                                             !.pc = "c_chk_pre"])
               [] wr.pc = "c_chk_pre" ->
                    Local(w, StartCall(wr, "cover", "c_cov", TRUE))
               [] wr.pc = "c_chk_fail" ->
                    Local(w, StartCall(wr, "release", "c_rel", FALSE))
               [] wr.pc = "c_chk_rel" ->
                    IF wr.rel.releaseGroupId # ""
                    THEN Local(w, StartCall(wr, "cover", "c_cov_g", FALSE))
                    ELSE Local(w, [wr EXCEPT !.pc = "c_ready"])

\* CoverFetchMB thread: checkpoint after a successful FetchCover, then
\* MSG_PROP_SET_COVER_DATA to the requester.
CoverReply(w) ==
  /\ w \in DOMAIN workers
  /\ workers[w].pc = "c_chk_ok"
  /\ LET wr == workers[w]
     IN IF Stale(wr.gen)
        THEN /\ workers' = [workers EXCEPT ![w] = Done(wr)]
             /\ UNCHANGED coverReplies
        ELSE /\ workers' = [workers EXCEPT ![w] = [wr EXCEPT !.pc = "c_ready"]]
             /\ coverReplies' = coverReplies \cup {w}
  /\ UNCHANGED <<fMbSearchGeneration, statusText, fPendingFiles,
                 fPendingRelease, fPendingCoverBlob, inbox, disk,
                 resetRunners, matchers, nReq, mbResults,
                 mvars, xvars>>

\* CoverFetchMB thread: the "Ready." status it ends with.
CoverReady(w) ==
  /\ w \in DOMAIN workers
  /\ workers[w].pc = "c_ready"
  /\ Post(w, Done(workers[w]), <<StatusMsg(w, "Ready.")>>)

WorkerIds == 1 .. MaxThreads

Next ==
  \/ MbSearch \/ MbCancel \/ ResetStatus \/ MbApply
  \/ SearchComplete \/ StatusUpdate \/ CoverFetchMb \/ MatchResult
  \/ \E w \in WorkerIds :
       \/ ClientEntry(w) \/ SearchAttempt(w) \/ ClientPoll(w)
       \/ SearchPost(w)
       \/ ApplyStart(w) \/ ApplyAfterBest(w) \/ ApplyAfterRelease(w)
       \/ ApplyAfterCover1(w) \/ ApplyAfterCover2(w) \/ ApplyWrite(w)
       \/ ApplyOpenMatcher(w) \/ ApplyStorePending(w) \/ ApplyFinish(w)
       \/ CoverStart(w) \/ CoverCheckpoint(w) \/ CoverReply(w)
       \/ CoverReady(w)

Spec == Init /\ [][Next]_vars

\* ------------------------------------------- the matching on its own
InitMatch ==
  /\ InitMatching
  /\ InitOthers
  /\ fMbSearchGeneration = 0
  /\ statusText = "Hole Metadaten von MusicBrainz..."
  /\ fPendingFiles = << >>
  /\ fPendingRelease = [relId |-> "", rel |-> FailedRelease]
  /\ fPendingCoverBlob = FALSE
  /\ workers = << >>
  /\ inbox = << >>
  /\ disk = [p \in Paths |-> DiskTag(0, 0)]
  /\ resetRunners = 0
  /\ matchers = {}
  /\ nReq = 0
  /\ mbResults = {}
  /\ coverReplies = {}

NextMatch == StrongSignalPass \/ FallbackFillPass \/ ComputeConfident

SpecMatch == InitMatch /\ [][NextMatch]_vars

(***************************************************************************)
(* Properties of the album-mode matching, stated for SpecMatch.            *)
(***************************************************************************)
MatchDone == mpc[1] = "done"
AfterFallback == mpc[1] \in {"verdict", "done"}
NumTracks == Cardinality(DOMAIN tracks)
Unassigned == {i \in DOMAIN fileToTrackMap : fileToTrackMap[i] = NoTrack}
AllMapped == Unassigned = {}
\* |track length - file length| under the 15-second tolerance, written out.
WithinTolerance(trackLen, fileLen) ==
  /\ trackLen - fileLen < 15
  /\ fileLen - trackLen < 15

\* C1: after the strong-signal pass and the fallback-fill pass no two file
\* positions of the mapping hold the same track index.
C1_EachTrackAtMostOnce ==
  AfterFallback =>
    \A i, j \in DOMAIN fileToTrackMap :
      (i # j /\ fileToTrackMap[i] # NoTrack)
        => fileToTrackMap[i] # fileToTrackMap[j]

\* C1 witness: two files compete for one track number; pass 1 gives the first
\* its track and the fallback gives the other file a different one.
C1_Witness ==
  /\ MatchDone /\ nFiles >= 2 /\ filesMatched = 1 /\ AllMapped
  /\ td[0].track = td[1].track /\ td[0].track > 0
  /\ fileToTrackMap[0] # NoTrack /\ fileToTrackMap[1] # NoTrack

\* C2 (as claimed): the verdict is confident iff every file is assigned, no
\* duration mismatch was recorded and 2 * strongMatches >= fileCount.
C2_ConfidentIffHalfStrong ==
  MatchDone =>
    (confident <=> (AllMapped /\ ~durationMismatch
                    /\ 2 * filesMatched >= nFiles))

\* C3 (as claimed): one pass-1 comparison out of tolerance, by embedded number
\* or by file-name number, makes the verdict of the batch not confident.
C3_AnyMismatchPoisons ==
  MatchDone => (beyond # {} => ~confident)

\* C5: with no more files than remote tracks every file holds a track index
\* after the fallback-fill pass, whatever pass 1 assigned.
C5_AllAssignedWhenEnoughTracks ==
  (AfterFallback /\ nFiles <= NumTracks) => AllMapped

\* C5 witness: as many files as tracks, pass 1 matched none of them.
C5_Witness ==
  /\ AfterFallback /\ nFiles = NumTracks /\ nFiles >= 2
  /\ filesMatched = 0 /\ AllMapped

\* C6: with more files than remote tracks (zero tracks included) exactly
\* fileCount - trackCount files stay unassigned and the verdict is not
\* confident.
C6_ExcessFilesUnassigned ==
  (MatchDone /\ nFiles > NumTracks) =>
    /\ Cardinality(Unassigned) = nFiles - NumTracks
    /\ ~confident

\* C6 witness: three files, two tracks, two strong matches, no mismatch.
C6_Witness ==
  /\ MatchDone /\ nFiles > NumTracks /\ NumTracks >= 2
  /\ filesMatched = NumTracks /\ ~durationMismatch

\* g sends every file to a remote track of its embedded number whose length
\* is within tolerance of the file's, different files to different tracks.
C7_Fits(g) ==
  /\ \A i \in DOMAIN g :
       /\ g[i] \in DOMAIN tracks
       /\ td[i].track > 0
       /\ td[i].track = tracks[g[i]].track
       /\ WithinTolerance(tracks[g[i]].length, td[i].lengthSec)
  /\ \A i, j \in DOMAIN g : i # j => g[i] # g[j]

\* C7 (as claimed): if the files' embedded numbers and durations fit distinct
\* remote tracks, the mapping sends each file to such a track and the verdict
\* is confident.
C7_TaggedFilesMapToTheirTracks ==
  (MatchDone /\ \E g \in [DOMAIN fileToTrackMap -> DOMAIN tracks] : C7_Fits(g))
    => (C7_Fits(fileToTrackMap) /\ confident)

\* The remote tracks that carry the number n.
TracksNumbered(n) == {k \in DOMAIN tracks : tracks[k].track = n}

\* Every file carries an embedded number borne by exactly one remote track,
\* different files by different tracks, with a duration within tolerance.
C7_Unambiguous ==
  /\ \A i \in DOMAIN td :
       /\ td[i].track > 0
       /\ Cardinality(TracksNumbered(td[i].track)) = 1
       /\ \A k \in TracksNumbered(td[i].track) :
            WithinTolerance(tracks[k].length, td[i].lengthSec)
  /\ \A i, j \in DOMAIN td : i # j => td[i].track # td[j].track

\* C7 (amended): under C7_Unambiguous each file is mapped to the one track
\* with its number and the verdict is confident.
C7_UniqueNumbersMapToTheirTracks ==
  (MatchDone /\ C7_Unambiguous) =>
    /\ \A i \in DOMAIN fileToTrackMap :
         fileToTrackMap[i] \in TracksNumbered(td[i].track)
    /\ confident

\* C7 witness: files tagged 2, 1 against a release whose tracks 1, 2 come in
\* order: the mapping is [1, 0].
C7_Witness ==
  /\ MatchDone /\ C7_Unambiguous /\ nFiles = 2
  /\ fileToTrackMap[0] = 1 /\ fileToTrackMap[1] = 0 /\ confident

\* ------------------------------------------------- claims on the threads
Threads(kind) == {w \in DOMAIN workers : workers[w].kind = kind}
\* The window has taken every message thread w posted.
Delivered(w) ==
  workers[w].pc = "done" /\ \A i \in DOMAIN inbox : inbox[i].w # w
\* Thread w takes the step from pc a to pc b.
Moves(w, a, b) ==
  w \in DOMAIN workers /\ workers[w].pc = a /\ workers'[w].pc = b

\* C4: an album-mode apply thread writes tags only under a confident
\* verdict; under a verdict that is not confident it writes to no file, opens
\* the manual matcher on its files and partial mapping, and stores its
\* release and cover as the pending ones.
C4_Verdict ==
  \A w \in Threads("apply") :
    LET wr == workers[w]
    IN wr.albumMode =>
         /\ wr.wrote => wr.confident
         /\ wr.handed => (~wr.confident /\ ~wr.wrote)
         /\ wr.pc \in {"a_matcher", "a_pending"} =>
              (~wr.confident /\ ~wr.wrote)
         /\ wr.pc = "a_finish" =>
              IF wr.confident THEN wr.wrote /\ ~wr.handed
              ELSE wr.handed /\ ~wr.wrote
C4_HandOver ==
  \A w \in WorkerIds :
    /\ Moves(w, "a_matcher", "a_pending") =>
         Matcher(w, workers[w]) \in matchers'
    /\ Moves(w, "a_pending", "a_finish") =>
         /\ fPendingRelease' =
              [relId |-> workers[w].relId, rel |-> workers[w].rel]
         /\ fPendingCoverBlob' = workers[w].hasCover
C4_WritesOnlyWhenConfident == [](C4_Verdict) /\ [][C4_HandOver]_vars
\* C4 witness: one album-mode thread has written under a confident verdict and
\* another has handed its release to the matcher without writing.
C4_Witness ==
  \E w, v \in Threads("apply") :
    /\ workers[w].albumMode /\ workers[w].confident /\ workers[w].wrote
    /\ workers[w].pc = "done"
    /\ workers[v].albumMode /\ ~workers[v].confident /\ workers[v].handed
    /\ workers[v].pc = "a_finish"
    /\ fPendingRelease.rel = workers[v].rel

\* C8: when the window handles a search completion whose generation is not
\* the current one, neither the status text changes nor a MSG_MB_RESULTS goes
\* out; a completion that is forwarded is the one of the most recently
\* started search, with no search or cancel since.
C8_Handled ==
  /\ inbox # << >>
  /\ Head(inbox).what = "MSG_MB_SEARCH_COMPLETE"
  /\ inbox' = Tail(inbox)
C8_Step ==
  /\ (C8_Handled /\ Head(inbox).gen # fMbSearchGeneration) =>
       (mbResults' = mbResults /\ statusText' = statusText)
  /\ \A w \in mbResults' \ mbResults :
       /\ C8_Handled /\ Head(inbox).w = w
       /\ workers[w].kind = "search"
       /\ workers[w].gen = fMbSearchGeneration
       /\ \A v \in Threads("search") : workers[v].gen <= workers[w].gen
C8_StaleCompletionDropped == [][C8_Step]_vars
\* C8 witness: the completion of an overtaken search was handled and dropped,
\* the completion of the latest search was forwarded.
C8_Witness ==
  \E w, v \in Threads("search") :
    /\ workers[w].gen < workers[v].gen
    /\ Delivered(w) /\ w \notin mbResults
    /\ workers[w].net
    /\ Delivered(v) /\ v \in mbResults

\* C9: a thread (search, apply or cover fetch) that finds at its first
\* checkpoint a generation other than the one it captured issues no network
\* request, writes no tags, and neither its search results nor its cover
\* reach the requester.
C9_StaleAtFirstCheckpoint ==
  \A w \in DOMAIN workers :
    workers[w].first = "stale" =>
      /\ ~workers[w].net
      /\ ~workers[w].wrote
      /\ ~workers[w].handed
      /\ w \notin mbResults
      /\ w \notin coverReplies
      /\ workers[w].kind # "search" => workers[w].pc = "done"
\* C9 witness: a search thread overtaken before SearchRecording's first check
\* has posted its completion and the window has handled it, while the search
\* that overtook it was answered.
C9_Witness ==
  \E w, v \in Threads("search") :
    /\ workers[w].first = "stale" /\ Delivered(w)
    /\ workers[v].first = "fresh" /\ v \in mbResults

\* C10: the steps that start a search and that start an apply each raise the
\* generation by one, so that every thread launched earlier and still running
\* holds another generation than the current one; no step lowers the
\* generation.
C10_Started ==
  /\ nReq' = nReq + 1
  /\ statusText' \in {"Searching on MusicBrainz...",
                      "Hole Metadaten von MusicBrainz..."}
C10_Step ==
  /\ fMbSearchGeneration' >= fMbSearchGeneration
  /\ C10_Started =>
       /\ fMbSearchGeneration' = fMbSearchGeneration + 1
       /\ \A w \in DOMAIN workers :
            workers[w].pc # "done" => workers[w].gen # fMbSearchGeneration'
C10_SearchAndApplyAdvance == [][C10_Step]_vars

\* C11: a thread that finds at one of its checkpoints that the generation has
\* moved on posts nothing to the window in that step: no result, no status
\* update, no "cancelled" notification.
C11_Checkpoints ==
  {"start", "a_chk_best", "a_chk_rel", "a_chk_cov1", "a_chk_cov2",
   "c_chk_read", "c_chk_search", "c_chk_pre", "c_chk_fail", "c_chk_rel",
   "c_chk_ok"}
C11_Step ==
  \A w \in DOMAIN workers :
    (/\ workers[w].pc \in C11_Checkpoints
     /\ workers[w].gen # fMbSearchGeneration
     /\ workers'[w] # workers[w])
      => inbox' = inbox
C11_StaleThreadPostsNothing == [][C11_Step]_vars

(***************************************************************************)
(* Part III: one caller of a MusicBrainzClient.  The caller runs the       *)
(* client's operations one after the other, as a worker thread does; the   *)
(* cancel predicate it passes may turn true at any moment.  Time advances  *)
(* only where the code sleeps or waits, and between operations.            *)
(***************************************************************************)

\* for (int i = 0; i < 200; i++) in RunQueryWithTimeout
PollLimit == 200

\* for (int i = 0; i < 10; i++) in the pause between two attempts
PausePolls == 10

\* The sizeHint every caller in MainWindow passes.
CoverSize == 500

\* The default of _FetchUrl's maxRedirects, which MusicBrainzClient.h
\* declares; the properties below are stated for whatever value it has.
HopLimit == 2

Operations == {"search", "release", "best", "cover"}

SizeHints == {0, CoverSize}

\* What a finished query thread hands back: an exception text, a CMetadata
\* with content, or a CMetadata without.
QueryOutcomes == {"Error", "data", "empty"}

\* The redirects _FetchUrl follows.
Redirects == {301, 302, 307}

\* What the image host may answer: a status, with or without a Location
\* header, with or without a body.
HttpReplies ==
  [status : {200, 404, 503} \cup Redirects, location : BOOLEAN, body : BOOLEAN]

\* How the wait for one HTTP request ends: with a reply, with the 20 s
\* running out, or with no HTTP result at all (no request object, a result of
\* another type, an exception).
WaitEnds == {"reply", "timeout", "none"}

\* _FetchUrl calls itself with the Location of the reply.
Follows(reply) == reply.status \in Redirects /\ reply.location

\* What _FetchUrl returns for a reply it does not follow.
Returned(reply) ==
  IF reply.status # 200 THEN reply.status
  ELSE IF ~reply.body THEN 500
  ELSE 200

Min(a, b) == IF a < b THEN a ELSE b

\* A counter of ticks t ticks later.
After(t, x) == Min(x + t, RateTicks)

\* _RespectRateLimit: how long it sleeps.
RespectRateLimit == IF sinceLastCall < RateTicks THEN RateTicks - sinceLastCall
                    ELSE 0

\* The handlers around a query: SearchRecording's retry loop catches
\* std::exception inside catch-alls; the other operations catch everything.
Handlers(o) == IF o = "search" THEN <<"std::exception", "...">> ELSE <<"...">>

CatchesNothing(handler, exc) == FALSE

\* RunQueryWithTimeout throws std::runtime_error only.
Catches(handler, exc) ==
  \/ handler = "..."
  \/ handler = "std::exception" /\ exc \in {"Error", "Timeout"}

Caught(o, exc) == \E h \in DOMAIN Handlers(o) : Catches(Handlers(o)[h], exc)

\* if (sizeHint > 0 && !isReleaseGroup): the URL ends in front-<size>.
Sized == sizeHint > 0 /\ ~isReleaseGroup

FallbackForAnyKind(status) == sizeHint > 0 /\ status = 404

FallbackAfterRedirect(status) ==
  sizeHint > 0 /\ status \in {301, 404} /\ ~isReleaseGroup

\* FetchCover after _FetchUrl returned 404: does it try the unsized URL?
Fallback(status) == sizeHint > 0 /\ status = 404 /\ ~isReleaseGroup

\* Everything but the caller's state and its buffer.
NotBuffer == <<mvars, wvars, hvars, tvars, fvars, bvars, kvars, pvars, svars>>

NotClient == <<NotBuffer, ovars>>

\* The caller starts an operation.
\* The buffer the next call finds: the vector a failed FetchCover left, which
\* the worker passes again, or the new vector of another worker after a
\* FetchCover that returned true.
Passed == IF op = "cover" /\ result = "data" THEN << >> ELSE outBytes

Call ==
  /\ cpc = "idle"
  /\ \E o \in Operations, c \in BOOLEAN, sh \in SizeHints, rg \in BOOLEAN :
       /\ o # "cover" => sh = 0 /\ rg = FALSE
       /\ op' = o
       /\ cancel' = c
       /\ sizeHint' = sh
       /\ asked' = sh
       /\ isReleaseGroup' = rg
  /\ cpc' = "entry"
  /\ result' = "pending"
  /\ retries' = 0
  /\ polls' = 0
  /\ maxRedirects' = 0
  /\ attempts' = 0
  /\ failure' = "none"
  /\ killed' = FALSE
  /\ threw' = FALSE
  /\ fetches' = << >>
  /\ requests' = 0
  /\ outBytes' = Passed
  /\ UNCHANGED <<sinceLastCall, sinceRequest, NotBuffer>>

\* Time passes between two operations.
Elapse ==
  /\ cpc = "idle"
  /\ sinceLastCall < RateTicks \/ sinceRequest < RateTicks
  /\ sinceLastCall' = After(1, sinceLastCall)
  /\ sinceRequest' = After(1, sinceRequest)
  /\ UNCHANGED <<op, cpc, cancel, retries, polls, sizeHint, isReleaseGroup,
                 maxRedirects, result, attempts, failure, killed, threw,
                 asked, fetches, requests, NotClient>>

\* The generation moves on while the operation runs.
Cancel ==
  /\ cpc # "idle"
  /\ ~cancel
  /\ cancel' = TRUE
  /\ UNCHANGED <<op, cpc, sinceLastCall, retries, polls, sizeHint,
                 isReleaseGroup, maxRedirects, result, sinceRequest,
                 attempts, failure, killed, threw, asked, fetches, requests,
                 NotClient>>

\* The operation returns res to its caller.
Return(res) ==
  /\ cpc' = "idle"
  /\ result' = res

\* outBytes.clear(), which FetchCover reaches when it is not cancelled at
\* its entry.
Cleared == IF op = "cover" /\ ~cancel THEN << >> ELSE outBytes

\* if (shouldCancel && shouldCancel()) return <empty>; at the entry of each
\* operation.  FetchCover goes on to _FetchUrl with the default hop limit.
Entry ==
  /\ cpc = "entry"
  /\ IF cancel THEN Return("empty") /\ UNCHANGED <<maxRedirects, requests>>
     ELSE IF op = "cover"
       THEN /\ cpc' = "fetch"
            /\ maxRedirects' = HopLimit
            /\ requests' = 0
            /\ UNCHANGED result
       ELSE /\ cpc' = "limit"
            /\ UNCHANGED <<result, maxRedirects, requests>>
  /\ outBytes' = Cleared
  /\ UNCHANGED <<op, cancel, sinceLastCall, retries, polls, sizeHint,
                 isReleaseGroup, sinceRequest, attempts, failure, killed,
                 threw, asked, fetches, NotBuffer>>

\* _RespectRateLimit(); ... fLastCall = system_time(); in SearchRecording,
\* GetReleaseDetails and BestReleaseForRecording.
RateLimit ==
  /\ cpc = "limit"
  /\ sinceRequest' = After(RespectRateLimit, sinceRequest)
  /\ sinceLastCall' = 0
  /\ IF op = "search"
       THEN cpc' = "attempt" /\ retries' = SearchRetries
       ELSE cpc' = "issue" /\ UNCHANGED retries
  /\ UNCHANGED <<op, cancel, polls, sizeHint, isReleaseGroup, maxRedirects,
                 result, attempts, failure, killed, threw, asked, fetches,
                 requests, NotClient>>

\* RunQueryWithTimeout up to its poll loop: the query thread starts, or
\* spawn_thread fails and an empty CMetadata comes back.
RunQuery ==
  /\ failure' = "none"
  /\ killed' = FALSE
  /\ \/ /\ cpc' = "poll"
        /\ polls' = 0
        /\ sinceRequest' = 0
        /\ UNCHANGED result
     \/ /\ Return("empty")
        /\ UNCHANGED <<polls, sinceRequest>>

\* GetReleaseDetails and BestReleaseForRecording call RunQueryWithTimeout.
Issue ==
  /\ cpc = "issue"
  /\ RunQuery
  /\ UNCHANGED <<op, cancel, sinceLastCall, retries, sizeHint, isReleaseGroup,
                 maxRedirects, attempts, threw, asked, fetches, requests,
                 NotClient>>

\* The head of SearchRecording's retry loop: the cancel check, then the
\* query.
Attempt ==
  /\ cpc = "attempt"
  /\ IF cancel
       THEN /\ Return("empty")
            /\ UNCHANGED <<polls, sinceRequest, attempts, failure, killed>>
       ELSE RunQuery /\ attempts' = attempts + 1
  /\ UNCHANGED <<op, cancel, sinceLastCall, retries, sizeHint, isReleaseGroup,
                 maxRedirects, threw, asked, fetches, requests, NotClient>>

\* RunQueryWithTimeout throws exc: SearchRecording counts the attempt and
\* pauses or gives up, the other operations return what they have.
Throw(exc) ==
  /\ failure' = exc
  /\ IF ~Caught(op, exc)
       THEN Return("empty") /\ threw' = TRUE /\ UNCHANGED <<retries, polls>>
       ELSE /\ threw' = threw
            /\ IF op = "search"
                 THEN /\ retries' = retries - 1
                      /\ IF retries - 1 = 0
                           THEN Return("empty") /\ UNCHANGED polls
                           ELSE cpc' = "pause" /\ polls' = 0 /\ UNCHANGED result
                 ELSE Return("empty") /\ UNCHANGED <<retries, polls>>

\* One round of the poll loop of RunQueryWithTimeout.
Poll ==
  /\ cpc = "poll"
  /\ polls < PollLimit
  /\ \/ /\ cancel
        /\ killed' = TRUE
        /\ Return("empty")
        /\ UNCHANGED <<sinceLastCall, sinceRequest, retries, polls, failure,
                       threw>>
     \/ /\ ~cancel
        /\ \E t \in {0, 1} :
             /\ sinceLastCall' = After(t, sinceLastCall)
             /\ sinceRequest' = After(t, sinceRequest)
        /\ \E out \in QueryOutcomes :
             IF out = "Error"
               THEN Throw("Error") /\ UNCHANGED killed
               ELSE /\ Return(out)
                    /\ failure' = "none"
                    /\ UNCHANGED <<retries, polls, killed, threw>>
     \/ /\ ~cancel
        /\ sinceLastCall' = After(1, sinceLastCall)
        /\ sinceRequest' = After(1, sinceRequest)
        /\ polls' = polls + 1
        /\ UNCHANGED <<cpc, result, retries, failure, killed, threw>>
  /\ UNCHANGED <<op, cancel, sizeHint, isReleaseGroup, maxRedirects, attempts,
                 asked, fetches, requests, NotClient>>

PollTimeoutReturnsEmpty ==
  /\ cpc = "poll"
  /\ polls = PollLimit
  /\ Return("empty")
  /\ UNCHANGED <<op, cancel, sinceLastCall, retries, polls, sizeHint,
                 isReleaseGroup, maxRedirects, sinceRequest, attempts,
                 failure, killed, threw, asked, fetches, requests, NotClient>>

\* Mutant of PollTimeout: the loop has no limit, the thread goes on waiting
\* for the query thread.
PollWithoutLimit ==
  /\ cpc = "poll"
  /\ polls = PollLimit
  /\ UNCHANGED vars

\* The poll loop ran out: kill_thread(tid); throw "Timeout waiting for
\* MusicBrainz".
PollTimeout ==
  /\ cpc = "poll"
  /\ polls = PollLimit
  /\ killed' = TRUE
  /\ Throw("Timeout")
  /\ UNCHANGED <<op, cancel, sinceLastCall, sizeHint, isReleaseGroup,
                 maxRedirects, sinceRequest, attempts, asked, fetches,
                 requests, NotClient>>

PauseWithoutCancelCheck ==
  /\ cpc = "pause"
  /\ sinceLastCall' = After(1, sinceLastCall)
  /\ sinceRequest' = After(1, sinceRequest)
  /\ polls' = polls + 1
  /\ cpc' = IF polls + 1 = PausePolls THEN "attempt" ELSE "pause"
  /\ UNCHANGED <<op, cancel, retries, sizeHint, isReleaseGroup, maxRedirects,
                 result, attempts, failure, killed, threw, asked, fetches,
                 requests, NotClient>>

\* One round of the pause between two attempts.
Pause ==
  /\ cpc = "pause"
  /\ IF cancel
       THEN Return("empty") /\ UNCHANGED <<polls, sinceLastCall, sinceRequest>>
       ELSE /\ sinceLastCall' = After(1, sinceLastCall)
            /\ sinceRequest' = After(1, sinceRequest)
            /\ polls' = polls + 1
            /\ cpc' = IF polls + 1 = PausePolls THEN "attempt" ELSE "pause"
            /\ UNCHANGED result
  /\ UNCHANGED <<op, cancel, retries, sizeHint, isReleaseGroup, maxRedirects,
                 attempts, failure, killed, threw, asked, fetches, requests,
                 NotClient>>

\* FetchCover with the status _FetchUrl returned.
Fetched(status) ==
  /\ fetches' = Append(fetches, [sized |-> Sized, status |-> status])
  /\ IF status = 200 THEN Return("data") /\ UNCHANGED sizeHint
     ELSE IF Fallback(status)
       THEN cpc' = "entry" /\ sizeHint' = 0 /\ UNCHANGED result
       ELSE Return("empty") /\ UNCHANGED sizeHint

\* The body of a reply as the sink holds it.
Body(reply) == IF reply.body THEN <<reply.status>> ELSE << >>

\* Mutant of Copied: the body is copied before the status is looked at.
CopiedWhateverStatus(reply) == IF reply.body THEN Body(reply) ELSE outBytes

\* outBytes.resize(len); memcpy: only for a 200 that is not followed and has
\* a body.
Copied(reply) ==
  IF ~Follows(reply) /\ Returned(reply) = 200 THEN Body(reply) ELSE outBytes

\* One call of _FetchUrl: no request at all once the hops are used up;
\* otherwise the rate limit, the request and a single wait of 20 s, with
\* no look at the cancel predicate.
FetchUrl ==
  /\ cpc = "fetch"
  /\ IF maxRedirects < 0
       THEN /\ Fetched(301)
            /\ UNCHANGED <<sinceLastCall, sinceRequest, maxRedirects,
                           requests, killed, outBytes>>
       ELSE /\ requests' = requests + 1
            /\ \E t \in 0 .. RateTicks :
                 /\ sinceLastCall' = After(t, 0)
                 /\ sinceRequest' = After(RespectRateLimit + t, sinceRequest)
            /\ \E end \in WaitEnds, reply \in HttpReplies :
                 /\ killed' = (end = "timeout")
                 /\ IF end = "timeout"
                      THEN Fetched(408) /\ UNCHANGED maxRedirects
                    ELSE IF end = "none"
                      THEN Fetched(0) /\ UNCHANGED maxRedirects
                    ELSE IF Follows(reply)
                      THEN /\ maxRedirects' = maxRedirects - 1
                           /\ UNCHANGED <<cpc, result, sizeHint, fetches>>
                      ELSE Fetched(Returned(reply)) /\ UNCHANGED maxRedirects
                 /\ outBytes' = IF end = "reply" THEN Copied(reply)
                                ELSE outBytes
  /\ UNCHANGED <<op, cancel, retries, polls, isReleaseGroup, attempts, failure,
                 threw, asked, NotBuffer>>

NextClient ==
  \/ Call \/ Elapse \/ Cancel \/ Entry \/ RateLimit \/ Issue \/ Attempt
  \/ Poll \/ PollTimeout \/ Pause \/ FetchUrl

\* The window and the matching take no part.
NoWindow ==
  /\ fMbSearchGeneration = 0
  /\ statusText = "Loading Music Library..."
  /\ fPendingFiles = << >>
  /\ fPendingRelease = [relId |-> "", rel |-> FailedRelease]
  /\ fPendingCoverBlob = FALSE
  /\ workers = << >>
  /\ inbox = << >>
  /\ disk = [p \in Paths |-> DiskTag(0, 0)]
  /\ resetRunners = 0
  /\ matchers = {}
  /\ nReq = 0
  /\ mbResults = {}
  /\ coverReplies = {}
  /\ nFiles = 1
  /\ tracks = << >>
  /\ td = << >>
  /\ fileToTrackMap = (0 :> NoTrack)
  /\ trackUsed = << >>
  /\ filesMatched = 0
  /\ durationMismatch = FALSE
  /\ nextTrackIdx = 0
  /\ confident = FALSE
  /\ mpc = <<"idle", 0>>
  /\ beyond = {}

InitSpecClient == InitClient /\ InitHits /\ InitTags /\ NoWindow /\ InitFrames /\ InitAttrs /\ InitCover /\ InitApply /\ InitShared /\ InitBuffer

SpecClient == InitSpecClient /\ [][NextClient]_vars

(***************************************************************************)
(* Properties of the client, stated for SpecClient.                        *)
(***************************************************************************)

\* The caller's step sends a metadata query.
QueryStarts == cpc \in {"issue", "attempt"} /\ cpc' = "poll"

\* C12: any two consecutive requests of one caller to the metadata service
\* start at least 1.1 s apart, between operations as between the attempts of
\* one SearchRecording call: a query starts only when RateTicks ticks or more
\* have passed since the query before it started.
C12_Step == QueryStarts => sinceRequest >= RateTicks
C12_QueriesSpaced == [][C12_Step]_vars

\* The caller's step, as opposed to time passing or the generation moving on.
CallerSteps == cpc' # cpc \/ polls' # polls \/ requests' # requests

\* C13: SearchRecording issues at most 3 queries.  It looks at the cancel
\* predicate before each of them and in every round of the pause between two
\* of them: where it finds the predicate true it returns the empty list and
\* issues no further query.  When all 3 queries have failed it returns the
\* empty list, and no exception.
C13_Bounded ==
  /\ attempts <= SearchRetries
  /\ (op = "search" /\ cpc = "idle" /\ retries = 0 /\ attempts = SearchRetries)
       => result = "empty" /\ ~threw
C13_Step ==
  /\ (op = "search" /\ attempts' > attempts) => ~cancel
  /\ (cpc \in {"attempt", "pause"} /\ cancel /\ CallerSteps)
       => cpc' = "idle" /\ result' = "empty" /\ attempts' = attempts
C13_ThreeAttempts == [](C13_Bounded) /\ [][C13_Step]_vars

\* All three queries failed, the last by running out of time.
C13_Witness ==
  /\ op = "search"
  /\ cpc = "idle"
  /\ attempts = SearchRetries
  /\ retries = 0
  /\ failure = "Timeout"

\* The operation has returned.
Returns(o) == op = o /\ cpc = "idle"

\* C14: no operation of the client lets an exception out to its caller: a
\* query that failed or ran out of time, and an HTTP request that produced no
\* result or ran out of time, end the operation with an empty result.
C14_NoExceptionEscapes ==
  /\ ~threw
  /\ \A o \in {"search", "release", "best"} :
       (Returns(o) /\ failure # "none") => result = "empty"
  /\ (Returns("cover") /\ fetches # << >>
        /\ fetches[Len(fetches)].status \in {0, 408})
       => result = "empty"

\* GetReleaseDetails returned after its query ran out of time.
C14_Witness == Returns("release") /\ failure = "Timeout" /\ result = "empty"

\* The caller is blocked in a network call: in the poll loop around a query,
\* or about to send an HTTP request and wait for it.
Blocked ==
  \/ cpc = "poll" /\ polls < PollLimit
  \/ cpc = "fetch" /\ maxRedirects >= 0

\* C15: every blocking network call, the query of RunQueryWithTimeout and
\* the HTTP request of _FetchUrl alike, is waited for in short polls that look
\* at the cancel predicate: once the predicate is true, the caller's next
\* step kills the thread of the call and returns an empty or failed result.
C15_Step ==
  (Blocked /\ cancel /\ CallerSteps)
    => cpc' = "idle" /\ result' = "empty" /\ killed'
C15_BlockedCallsSeeCancel == [][C15_Step]_vars

\* C16: a query that has not finished after 200 polls of 100 ms ends with
\* the failure "Timeout" and with its thread killed, and only such a query
\* does; a query that finishes with an empty CMetadata is returned without a
\* failure and without a kill.
C16_Step ==
  /\ (cpc = "poll" /\ polls = PollLimit /\ CallerSteps)
       => failure' = "Timeout" /\ killed'
  /\ (cpc = "poll" /\ CallerSteps /\ failure' = "Timeout")
       => polls = PollLimit
  /\ (cpc = "poll" /\ ~cancel /\ cpc' = "idle" /\ polls < PollLimit)
       => killed' = killed /\ failure' # "Timeout"
AfterSizeHint == Returns("cover") /\ asked > 0 /\ fetches # << >>

\* The second request of FetchCover went to the unsized URL and decided the
\* result.
FellBack ==
  /\ Len(fetches) = 2
  /\ ~fetches[2].sized
  /\ (result = "data") <=> (fetches[2].status = 200)

C18_Step ==
  (cpc = "fetch" /\ maxRedirects < 0 /\ CallerSteps)
    => /\ cpc' = "idle"
       /\ result' = "empty"
       /\ requests' = requests
       /\ fetches' = Append(fetches, [sized |-> Sized, status |-> 301])
C18_HopsBounded ==
  [](requests <= HopLimit + 1 /\ maxRedirects >= -1) /\ [][C18_Step]_vars

\* FetchCover failed on a chain of HopLimit + 1 redirects to a sized URL.
C18_Witness ==
  /\ Returns("cover")
  /\ requests = HopLimit + 1
  /\ maxRedirects = -1
  /\ fetches = <<[sized |-> TRUE, status |-> 301]>>
  /\ result = "empty"

(***************************************************************************)
(* Part IV: how SearchRecording turns the recording list of an answer into *)
(* its list of hits.                                                       *)
(***************************************************************************)

MaxRecordings == 2
MaxReleases == 2

\* Sequences over S of at most n elements.
UpTo(n, S) == UNION { [1 .. k -> S] : k \in 0 .. n }

RECURSIVE Sum(_)
Sum(seq) == IF seq = << >> THEN 0 ELSE Head(seq) + Sum(Tail(seq))

\* A release of a recording: its media are given by their track counts.
MBReleases ==
  [id : {"a", "b"}, title : {"T"}, country : {"DE"}, date : {"", "1999-05"},
   media : {<<2>>, <<1, 2>>}]

\* rec->ReleaseList(): no list, or a list of releases.
ReleaseLists ==
  {[present |-> FALSE, items |-> << >>]}
    \cup {[present |-> TRUE, items |-> l] : l \in UpTo(MaxReleases, MBReleases)}

\* The name credits of the two recordings.
Credits == [r1 |-> <<"x">>, r2 |-> <<"x", "y">>]

MBRecordings ==
  { [id |-> r, title |-> "S", credit |-> Credits[r], releases |-> l] :
      r \in {"r1", "r2"}, l \in ReleaseLists }

\* atoi reads the leading digits of the date, 0 if there are none.
Atoi(d) == IF d = "1999-05" THEN 1999 ELSE 0

\* The artist string: the names, ", " before each but the first.
RECURSIVE ArtStr(_, _)
ArtStr(ncl, k) ==
  IF k > Len(ncl) THEN << >>
  ELSE (IF k > 1 THEN <<", ">> ELSE << >>) \o <<ncl[k]>> \o ArtStr(ncl, k + 1)

\* MBHit hit with the fields of the recording; the release fields are as
\* MBHit's declaration leaves them.
RecordingHit(rec) ==
  [recordingId |-> rec.id, title |-> rec.title,
   artist |-> ArtStr(rec.credit, 1),
   releaseId |-> "", releaseTitle |-> "", country |-> "", year |-> 0,
   trackCount |-> 0]

\* specificHit: the hit of the recording with the fields of one release.
SpecificHit(hit, rel) ==
  [hit EXCEPT !.releaseId = rel.id,
              !.releaseTitle = rel.title,
              !.country = rel.country,
              !.year = IF rel.date # "" THEN Atoi(rel.date) ELSE hit.year,
              !.trackCount = Sum(rel.media)]

HitsOnlyWithReleases(rec) ==
  [j \in 1 .. Len(rec.releases.items) |->
     SpecificHit(RecordingHit(rec), rec.releases.items[j])]

\* What one recording adds to results.
HitsOf(rec) ==
  IF rec.releases.present /\ Len(rec.releases.items) > 0
    THEN [j \in 1 .. Len(rec.releases.items) |->
            SpecificHit(RecordingHit(rec), rec.releases.items[j])]
    ELSE <<RecordingHit(rec)>>

\* The loop over rl->Item(i).
RECURSIVE Hits(_)
Hits(rl) == IF rl = << >> THEN << >> ELSE HitsOf(Head(rl)) \o Hits(Tail(rl))

\* The answer of the service is in.
InitSpecHits ==
  /\ meta \in UpTo(MaxRecordings, MBRecordings)
  /\ results = << >>
  /\ hpc = "meta"
  /\ InitClient
  /\ InitTags
  /\ InitFrames
  /\ InitAttrs
  /\ InitCover
  /\ InitApply
  /\ InitShared
  /\ InitBuffer
  /\ NoWindow

NotHits == <<mvars, wvars, cvars, tvars, fvars, bvars, kvars, pvars, svars, ovars>>

\* SearchRecording builds results from the answer.
BuildHits ==
  /\ hpc = "meta"
  /\ results' = Hits(meta)
  /\ hpc' = "done"
  /\ UNCHANGED <<meta, NotHits>>

NextHits == BuildHits

SpecHits == InitSpecHits /\ [][NextHits]_vars

\* The number of releases of a recording.
NumReleases(rec) == Len(rec.releases.items)

\* What a recording ought to contribute: max(1, number of releases).
Share(rec) == IF NumReleases(rec) > 1 THEN NumReleases(rec) ELSE 1

\* Where the hits of the recordings before the k-th end in results.
RECURSIVE Offset(_, _)
Offset(rl, k) == IF k = 1 THEN 0 ELSE Offset(rl, k - 1) + Share(rl[k - 1])

\* C19: SearchRecording returns one hit per pair of a recording and one of
\* its releases, and exactly one hit with empty release fields for a
\* recording without releases: as many hits as the sum of max(1, number of
\* releases) over the recordings; the hits of one recording carry its id,
\* title and artist, each with the fields of its own release.
C19_HitPerRecordingAndRelease ==
  hpc = "done" =>
    /\ Len(results) = Offset(meta, Len(meta) + 1)
    /\ \A k \in 1 .. Len(meta) :
         LET rec == meta[k]
             at == Offset(meta, k)
         IN /\ \A j \in 1 .. Share(rec) :
                 /\ results[at + j].recordingId = rec.id
                 /\ results[at + j].title = rec.title
                 /\ results[at + j].artist = results[at + 1].artist
            /\ \A j \in 1 .. NumReleases(rec) :
                 /\ results[at + j].releaseId = rec.releases.items[j].id
                 /\ results[at + j].releaseTitle = rec.releases.items[j].title
                 /\ results[at + j].country = rec.releases.items[j].country
            /\ NumReleases(rec) = 0 =>
                 /\ results[at + 1].releaseId = ""
                 /\ results[at + 1].releaseTitle = ""
                 /\ results[at + 1].country = ""

\* A recording with two releases and one with an empty release list gave
\* three hits.
C19_Witness ==
  /\ hpc = "done"
  /\ Len(meta) = 2
  /\ NumReleases(meta[1]) = 2
  /\ meta[2].releases = [present |-> TRUE, items |-> << >>]
  /\ Len(results) = 3

(***************************************************************************)
(* Part V: TagSync writes a TagData into a file and reads it back.  A      *)
(* string of the container is "" when the frame, item or property is       *)
(* absent; a string of numbers such as "3" or "3/10" is the sequence of    *)
(* its numbers, the slash between two of them.                             *)
(***************************************************************************)

\* How many fields of the TagData to write differ from their defaults.
MaxSet == 3

Formats == {"mp3", "mp4", "other"}

\* The strings set_basic_tags writes through TagLib::Tag.
BasicText == {"title", "artist", "album", "genre", "comment"}

\* The strings stored per format: TPE2, TCOM and TXXX frames in ID3v2;
\* aART, (c)wrt and free-form items in MP4; ALBUMARTIST, COMPOSER and
\* MUSICBRAINZ_* properties elsewhere.
ExtraText == {"albumArtist", "composer", "mbAlbumID", "mbArtistID", "mbTrackID"}

TextFields == BasicText \cup ExtraText

NumFields == {"year", "track", "trackTotal", "disc", "discTotal"}

\* The value a field takes when it is set.
SetValue ==
  [title |-> "t", artist |-> "a", album |-> "al", genre |-> "g",
   comment |-> "c", albumArtist |-> "aa", composer |-> "co",
   mbAlbumID |-> "ida", mbArtistID |-> "idr", mbTrackID |-> "idt",
   year |-> 1999, track |-> 3, trackTotal |-> 10, disc |-> 2, discTotal |-> 5]

\* A TagData as its constructor leaves it.
EmptyTag ==
  [f \in TextFields \cup NumFields |-> IF f \in TextFields THEN "" ELSE 0]

\* The TagData with the fields in S set.
TagWith(S) ==
  [f \in TextFields \cup NumFields |-> IF f \in S THEN SetValue[f] ELSE EmptyTag[f]]

TagDatas ==
  { TagWith(S) : S \in { T \in SUBSET (TextFields \cup NumFields) :
                           Cardinality(T) <= MaxSet } }

\* The numeric strings of a container: the year; the track (TRCK, trkn,
\* TRACKNUMBER) and the disc (the TPOS frame, disk, DISCNUMBER); and the
\* properties only the third branch of WriteTagsToFile writes.
NumKeys ==
  {"year", "track", "disc", "TRACKTOTAL", "TOTALTRACKS", "DISCTOTAL",
   "TOTALDISCS", "TPOS"}

\* A file without tags.
Blank(fmt) ==
  [fmt |-> fmt, text |-> [k \in TextFields |-> ""],
   num |-> [k \in NumKeys |-> << >>]]

\* A file another tagger has filled.
Tagged(fmt) ==
  [fmt |-> fmt, text |-> [k \in TextFields |-> "old"],
   num |-> [k \in NumKeys |->
              IF k = "year" THEN <<1970>>
              ELSE IF k \in {"track", "TPOS"} \/ (k = "disc" /\ fmt # "other")
                THEN <<9, 12>>
              ELSE IF fmt = "other" THEN <<9>>
              ELSE << >>]]

Files == { Blank(fmt) : fmt \in Formats } \cup { Tagged(fmt) : fmt \in Formats }

\* _toUInt: strtol reads the leading number.
ToUInt(s) == IF s = << >> THEN 0 ELSE s[1]

\* _parsePair
ParsePair(s) ==
  [first |-> IF Len(s) >= 1 THEN s[1] ELSE 0,
   second |-> IF Len(s) >= 2 THEN s[2] ELSE 0]

\* _pairStr
PairStr(n, tot) ==
  IF n = 0 /\ tot = 0 THEN << >>
  ELSE IF tot = 0 THEN <<n>>
  ELSE <<n, tot>>

\* v ? BString().SetToFormat("%lu", v) : ""
UIntStr(v) == IF v = 0 THEN << >> ELSE <<v>>

\* set_basic_tags: the five strings, setYear and setTrack.
SetBasicTags(f, tag) ==
  [f EXCEPT !.text = [k \in TextFields |->
                        IF k \in BasicText THEN tag[k] ELSE f.text[k]],
            !.num = [f.num EXCEPT !["year"] = UIntStr(tag.year),
                                  !["track"] = UIntStr(tag.track)]]

\* The frames, items or properties of album artist and composer: set, or
\* removed when the string is empty.
SetExtra(f, tag) ==
  [f EXCEPT !.text = [k \in TextFields |->
                        IF k \in {"albumArtist", "composer"} THEN tag[k]
                        ELSE f.text[k]]]

\* setTXXX, _setOrErase: the identifier is replaced, or removed when empty.
SetOrErase(f, tag) ==
  [f EXCEPT !.text = [k \in TextFields |->
                        IF k \in {"mbAlbumID", "mbArtistID", "mbTrackID"}
                          THEN tag[k] ELSE f.text[k]]]

\* setFreeform: an empty identifier removes the item called name, which is
\* not the key "----:com.apple.iTunes:" + name the item is stored under.
SetFreeform(f, tag) ==
  [f EXCEPT !.text = [k \in TextFields |->
                        IF k \in {"mbAlbumID", "mbArtistID", "mbTrackID"}
                             /\ tag[k] # ""
                          THEN tag[k] ELSE f.text[k]]]

\* The branch for .mp3: ID3v2 frames.
WriteMp3(f, tag) ==
  LET g == SetOrErase(SetExtra(SetBasicTags(f, tag), tag), tag)
  IN [g EXCEPT !.num = [g.num EXCEPT
                          !["track"] = PairStr(tag.track, tag.trackTotal),
                          !["disc"] = PairStr(tag.disc, tag.discTotal)]]

\* The branch for .m4a, .mp4 and .aac: MP4 items; trkn and disk are pairs
\* of integers.
WriteMp4(f, tag) ==
  LET g == SetFreeform(SetExtra(SetBasicTags(f, tag), tag), tag)
  IN [g EXCEPT !.num = [g.num EXCEPT
                          !["track"] = <<tag.track, tag.trackTotal>>,
                          !["disc"] = <<tag.disc, tag.discTotal>>]]

\* The last branch: the property map of any other format.  The string d of
\* tag.disc is built and not stored: DISCNUMBER stays as it was.
WriteOther(f, tag) ==
  LET g == SetOrErase(SetExtra(SetBasicTags(f, tag), tag), tag)
  IN [g EXCEPT !.num = [g.num EXCEPT
                          !["TRACKTOTAL"] = UIntStr(tag.trackTotal),
                          !["TOTALTRACKS"] = UIntStr(tag.trackTotal),
                          !["DISCTOTAL"] = UIntStr(tag.discTotal),
                          !["TOTALDISCS"] = UIntStr(tag.discTotal),
                          !["track"] = PairStr(tag.track, tag.trackTotal),
                          !["TPOS"] = PairStr(tag.disc, tag.discTotal)]]

WriteTagsToFile(f, tag) ==
  IF f.fmt = "mp3" THEN WriteMp3(f, tag)
  ELSE IF f.fmt = "mp4" THEN WriteMp4(f, tag)
  ELSE WriteOther(f, tag)

\* An MP4 pair of integers as the property map shows it: "n", or "n/tot".
PairProperty(p) == IF Len(p) = 2 /\ p[2] = 0 THEN <<p[1]>> ELSE p

\* fr.file()->properties(): the property of key k, "" if the format has
\* none.
Property(f, k) ==
  IF k = "TRACKNUMBER" THEN PairProperty(f.num["track"])
  ELSE IF k = "DISCNUMBER" THEN PairProperty(f.num["disc"])
  ELSE IF f.fmt = "other" THEN f.num[k]
  ELSE << >>

\* _getTL: the first non-empty property among keys.
RECURSIVE GetTL(_, _)
GetTL(f, keys) ==
  IF keys = << >> THEN << >>
  ELSE IF Property(f, Head(keys)) # << >> THEN Property(f, Head(keys))
  ELSE GetTL(f, Tail(keys))

\* ReadTags up to the property map: the strings, year and track of
\* TagLib::Tag, album artist, composer and the identifiers.
ReadBasic(f) ==
  [k \in TextFields \cup NumFields |->
     IF k \in TextFields THEN f.text[k]
     ELSE IF k = "year" THEN ToUInt(f.num["year"])
     ELSE IF k = "track" THEN ToUInt(f.num["track"])
     ELSE 0]

\* The track and its total from the property map.
ReadTrack(f, o) ==
  LET tt == GetTL(f, <<"TRACKTOTAL", "TOTALTRACKS">>)
      o1 == IF o.trackTotal = 0 /\ tt # << >>
              THEN [o EXCEPT !.trackTotal = ToUInt(tt)] ELSE o
      p == ParsePair(GetTL(f, <<"TRACKNUMBER">>))
      o2 == IF p.first # 0 /\ o1.track = 0
              THEN [o1 EXCEPT !.track = p.first] ELSE o1
  IN IF p.second # 0 THEN [o2 EXCEPT !.trackTotal = p.second] ELSE o2

\* The disc and its total from the property map.
ReadDisc(f, o) ==
  LET o1 == IF o.disc = 0
              THEN [o EXCEPT !.disc = ToUInt(GetTL(f, <<"DISCNUMBER", "TPOS">>))]
              ELSE o
      dt == GetTL(f, <<"DISCTOTAL", "TOTALDISCS">>)
      o2 == IF o1.discTotal = 0 /\ dt # << >>
              THEN [o1 EXCEPT !.discTotal = ToUInt(dt)] ELSE o1
      p == ParsePair(GetTL(f, <<"TPOS", "DISCNUMBER">>))
      o3 == IF p.first # 0 /\ o2.disc = 0
              THEN [o2 EXCEPT !.disc = p.first] ELSE o2
  IN IF p.second # 0 THEN [o3 EXCEPT !.discTotal = p.second] ELSE o3

\* The TRCK and TPOS frames of ID3v2, and the trkn and disk items of MP4,
\* fill what is still 0.
ReadPairs(f, o) ==
  IF f.fmt = "other" THEN o
  ELSE LET t == ParsePair(f.num["track"])
           d == ParsePair(f.num["disc"])
       IN [o EXCEPT
             !.track = IF o.track = 0 THEN t.first ELSE @,
             !.trackTotal = IF o.trackTotal = 0 THEN t.second ELSE @,
             !.disc = IF o.disc = 0 THEN d.first ELSE @,
             !.discTotal = IF o.discTotal = 0 THEN d.second ELSE @]

ReadTags(f) == ReadPairs(f, ReadDisc(f, ReadTrack(f, ReadBasic(f))))

\* A file and the TagData to write into it.
InitSpecTags ==
  /\ file \in Files
  /\ written \in TagDatas
  /\ readBack = EmptyTag
  /\ tpc = "start"
  /\ InitClient
  /\ InitHits
  /\ InitFrames
  /\ InitAttrs
  /\ InitCover
  /\ InitApply
  /\ InitShared
  /\ InitBuffer
  /\ NoWindow

NotTags == <<mvars, wvars, cvars, hvars, fvars, bvars, kvars, pvars, svars, ovars>>

WriteTags ==
  /\ tpc = "start"
  /\ file' = WriteTagsToFile(file, written)
  /\ tpc' = "written"
  /\ UNCHANGED <<written, readBack, NotTags>>

ReadBack ==
  /\ tpc = "written"
  /\ readBack' = ReadTags(file)
  /\ tpc' = "read"
  /\ UNCHANGED <<file, written, NotTags>>

\* ReadTags of the file as it was found.
ReadFound ==
  /\ tpc = "start"
  /\ readBack' = ReadTags(file)
  /\ tpc' = "found"
  /\ UNCHANGED <<file, written, NotTags>>

NextTags == WriteTags \/ ReadBack \/ ReadFound

SpecTags == InitSpecTags /\ [][NextTags]_vars

\* C20: for each of the three container formats, ReadTags after
\* WriteTagsToFile returns every field as it was written: the seven strings,
\* year, track and its total, disc and its total, and the three identifiers.
C20_RoundTrip == tpc = "read" => readBack = written

(***************************************************************************)
(* Part VI: the ID3v2 tag of an .mp3 file under two writes of the same     *)
(* TagData.  A frame list of TagLib may hold several frames of one id.     *)
(***************************************************************************)

\* How many frames of one id, and how many TXXX frames, the file holds
\* before the first write.
MaxFrames == 2

\* The text frames set_basic_tags writes, by the TagData field they take.
BasicFrames ==
  [TIT2 |-> "title", TPE1 |-> "artist", TALB |-> "album", TCON |-> "genre",
   COMM |-> "comment"]

\* The frames holding numbers.
NumberFrames == {"TDRC", "TRCK", "TPOS"}

FrameIds == DOMAIN BasicFrames \cup NumberFrames \cup {"TPE2", "TCOM"}

\* The j-th frame of id another tagger left.
OldFrame(id, j) ==
  IF id = "TDRC" THEN <<1970 + j>>
  ELSE IF id \in NumberFrames THEN (IF j = 1 THEN <<9, 12>> ELSE <<8>>)
  ELSE (IF j = 1 THEN "old1" ELSE "old2")

\* description().upper() of the descriptions that occur.
Upper(desc) ==
  CASE desc \in {"MusicBrainz Album Id", "MUSICBRAINZ ALBUM ID"}
         -> "MUSICBRAINZ ALBUM ID"
    [] desc = "MusicBrainz Artist Id" -> "MUSICBRAINZ ARTIST ID"
    [] desc = "MusicBrainz Track Id" -> "MUSICBRAINZ TRACK ID"
    [] OTHER -> desc

\* The TXXX frames another tagger may have left.
OldTXXX ==
  { [desc |-> d, text |-> "old"] :
      d \in {"MusicBrainz Album Id", "MUSICBRAINZ ALBUM ID",
             "MusicBrainz Track Id"} }

\* The tags a file may hold before the first write: k frames of every id.
Id3Tags ==
  { [frames |-> [id \in FrameIds |-> [j \in 1 .. k |-> OldFrame(id, j)]],
     txxx |-> l] :
      k \in 0 .. MaxFrames, l \in UpTo(MaxFrames, OldTXXX) }

\* ID3v2::Tag::setTextFrame, behind setTitle ... setTrack: an empty value
\* removes every frame of the id, another one goes into the first frame,
\* or into a new one.
SetTextFrame(l, v, empty) ==
  IF empty THEN << >>
  ELSE IF l # << >> THEN [l EXCEPT ![1] = v]
  ELSE <<v>>

\* The blocks for TPE2, TCOM, TRCK and TPOS: fr is the first frame of the
\* id; an empty value removes fr, another one goes into fr or into a new
\* frame.
SetFrontFrame(l, v, empty) ==
  IF empty THEN (IF l # << >> THEN Tail(l) ELSE l)
  ELSE IF l # << >> THEN [l EXCEPT ![1] = v]
  ELSE <<v>>

RECURSIVE Without(_, _)
Without(l, desc) ==
  IF l = << >> THEN << >>
  ELSE IF Upper(Head(l).desc) = Upper(desc) THEN Without(Tail(l), desc)
  ELSE <<Head(l)>> \o Without(Tail(l), desc)

\* setTXXX: every frame of the description goes, compared in upper case;
\* a non-empty value comes in one new frame.
SetTXXX(l, desc, val) ==
  Without(l, desc)
    \o (IF val # "" THEN <<[desc |-> desc, text |-> val]>> ELSE << >>)

\* set_basic_tags on the ID3v2 tag.
Id3Basic(fr, tag) ==
  [id \in FrameIds |->
     IF id \in DOMAIN BasicFrames
       THEN SetTextFrame(fr[id], tag[BasicFrames[id]],
                         tag[BasicFrames[id]] = "")
     ELSE IF id = "TDRC"
       THEN SetTextFrame(fr[id], <<tag.year>>, tag.year = 0)
     ELSE IF id = "TRCK"
       THEN SetTextFrame(fr[id], <<tag.track>>, tag.track = 0)
     ELSE fr[id]]

\* The branch of WriteTagsToFile for .mp3, on the tag t.
WriteId3(t, tag) ==
  LET b == Id3Basic(t.frames, tag)
      trck == PairStr(tag.track, tag.trackTotal)
      tpos == PairStr(tag.disc, tag.discTotal)
  IN [frames |->
        [b EXCEPT
           !["TPE2"] = SetFrontFrame(@, tag.albumArtist, tag.albumArtist = ""),
           !["TCOM"] = SetFrontFrame(@, tag.composer, tag.composer = ""),
           !["TRCK"] = SetFrontFrame(@, trck, trck = << >>),
           !["TPOS"] = SetFrontFrame(@, tpos, tpos = << >>)],
      txxx |->
        SetTXXX(SetTXXX(SetTXXX(t.txxx, "MusicBrainz Album Id", tag.mbAlbumID),
                        "MusicBrainz Artist Id", tag.mbArtistID),
                "MusicBrainz Track Id", tag.mbTrackID)]

\* A tagged or untagged file and the TagData to write.
InitSpecFrames ==
  /\ id3 \in Id3Tags
  /\ id3Once = << >>
  /\ tagData \in TagDatas
  /\ fpc = "start"
  /\ InitClient
  /\ InitHits
  /\ InitTags
  /\ InitAttrs
  /\ InitCover
  /\ InitApply
  /\ InitShared
  /\ InitBuffer
  /\ NoWindow

NotFrames == <<mvars, wvars, cvars, hvars, tvars, bvars, kvars, pvars, svars, ovars>>

WriteOnce ==
  /\ fpc = "start"
  /\ id3' = WriteId3(id3, tagData)
  /\ id3Once' = id3'
  /\ fpc' = "once"
  /\ UNCHANGED <<tagData, NotFrames>>

WriteAgain ==
  /\ fpc = "once"
  /\ id3' = WriteId3(id3, tagData)
  /\ fpc' = "twice"
  /\ UNCHANGED <<id3Once, tagData, NotFrames>>

NextFrames == WriteOnce \/ WriteAgain

SpecFrames == InitSpecFrames /\ [][NextFrames]_vars

\* The TXXX frames of t whose description is desc, compared in upper case.
FramesOf(t, desc) ==
  { j \in DOMAIN t.txxx : Upper(t.txxx[j].desc) = Upper(desc) }

\* C21: WriteTags is idempotent.  The second write of a TagData leaves the
\* ID3v2 tag as the first left it; and after a write the tag holds, for each
\* of the three MusicBrainz descriptions, one TXXX frame with the value when
\* the value is non-empty and none when it is empty.
C21_Idempotent ==
  /\ fpc = "twice" => id3 = id3Once
  /\ fpc \in {"once", "twice"} =>
       \A d \in {"MusicBrainz Album Id", "MusicBrainz Artist Id",
                 "MusicBrainz Track Id"} :
         LET v == IF d = "MusicBrainz Album Id" THEN tagData.mbAlbumID
                  ELSE IF d = "MusicBrainz Artist Id" THEN tagData.mbArtistID
                  ELSE tagData.mbTrackID
         IN /\ Cardinality(FramesOf(id3, d)) = (IF v = "" THEN 0 ELSE 1)
            /\ \A j \in FramesOf(id3, d) : id3.txxx[j].text = v

(***************************************************************************)
(* Part VII.  TagSync::WriteBfsAttributes: the TagData mirrored into the   *)
(* attributes of the file's node.                                          *)
(***************************************************************************)

MaxMirrored == 2

\* The fields of TagData that ReadTags fills from the audio properties, and
\* the AcoustID.
AudioFields == {"lengthSec", "bitrate", "sampleRate", "channels"}

MirrorFields == TextFields \cup NumFields \cup AudioFields \cup {"acoustId"}

\* The calls of WriteBfsAttributes, in order: the attribute, the field it
\* mirrors and whether it is written as a string or as an int32.
Mirror ==
  << [name |-> "Media:Title",       field |-> "title",       str |-> TRUE],
     [name |-> "Audio:Artist",      field |-> "artist",      str |-> TRUE],
     [name |-> "Audio:Album",       field |-> "album",       str |-> TRUE],
     [name |-> "Media:Genre",       field |-> "genre",       str |-> TRUE],
     [name |-> "Media:Comment",     field |-> "comment",     str |-> TRUE],
     [name |-> "Media:Year",        field |-> "year",        str |-> FALSE],
     [name |-> "Audio:Track",       field |-> "track",       str |-> FALSE],
     [name |-> "Media:Length",      field |-> "lengthSec",   str |-> FALSE],
     [name |-> "Audio:Bitrate",     field |-> "bitrate",     str |-> FALSE],
     [name |-> "Audio:Rate",        field |-> "sampleRate",  str |-> FALSE],
     [name |-> "Audio:Channels",    field |-> "channels",    str |-> FALSE],
     [name |-> "Media:AlbumArtist", field |-> "albumArtist", str |-> TRUE],
     [name |-> "Media:Composer",    field |-> "composer",    str |-> TRUE],
     [name |-> "Media:TrackTotal",  field |-> "trackTotal",  str |-> FALSE],
     [name |-> "Media:Disc",        field |-> "disc",        str |-> FALSE],
     [name |-> "Media:DiscTotal",   field |-> "discTotal",   str |-> FALSE],
     [name |-> "Media:MBAlbumID",   field |-> "mbAlbumID",   str |-> TRUE],
     [name |-> "Media:MBArtistID",  field |-> "mbArtistID",  str |-> TRUE],
     [name |-> "Media:MBTrackID",   field |-> "mbTrackID",   str |-> TRUE],
     [name |-> "Media::AAID",       field |-> "acoustId",    str |-> TRUE] >>

AttrNames == { Mirror[k].name : k \in DOMAIN Mirror }

\* An attribute of a node: absent, a B_STRING_TYPE or a B_INT32_TYPE.
NoAttr == [type |-> "none", s |-> "", v |-> 0]

StrAttr(s) == [type |-> "string", s |-> s, v |-> 0]

IntAttr(v) == [type |-> "int32", s |-> "", v |-> v]

\* The value a mirrored field takes when it is set.
MirrorValue(f) ==
  IF f \in TextFields \cup NumFields THEN SetValue[f]
  ELSE IF f = "acoustId" THEN "aid"
  ELSE IF f = "lengthSec" THEN 180
  ELSE IF f = "bitrate" THEN 320
  ELSE IF f = "sampleRate" THEN 44100
  ELSE 2

\* The TagData with the fields in S set.
MirrorTag(S) ==
  [f \in MirrorFields |->
     IF f \in S THEN MirrorValue(f)
     ELSE IF f \in TextFields \cup {"acoustId"} THEN "" ELSE 0]

MirrorTags ==
  { MirrorTag(S) : S \in { T \in SUBSET MirrorFields :
                             Cardinality(T) <= MaxMirrored } }

\* The attributes of a node before the call: none, or those an earlier
\* mirror of another TagData left.
NodeAttrs ==
  { [a \in AttrNames |-> NoAttr],
    [a \in AttrNames |->
       LET k == CHOOSE k \in DOMAIN Mirror : Mirror[k].name = a
       IN IF Mirror[k].str THEN StrAttr("old") ELSE IntAttr(77)] }

\* The attribute operations that fail in one call: none, or one of them.
Refusals == {{}} \cup { {a} : a \in AttrNames }

\* write_attr_str_opt, write_attr_uint_opt: the attribute m of the node
\* after the call, and whether the call returned true.  RemoveAttr of an
\* absent attribute is B_ENTRY_NOT_FOUND, which remove_attr counts as done.
WriteAttrOpt(n, m, tag, failing) ==
  IF m.name \in failing THEN [node |-> n, ok |-> FALSE]
  ELSE IF m.str
    THEN [node |-> [n EXCEPT ![m.name] = IF tag[m.field] = "" THEN NoAttr
                                         ELSE StrAttr(tag[m.field])],
          ok |-> TRUE]
    ELSE [node |-> [n EXCEPT ![m.name] = IF tag[m.field] = 0 THEN NoAttr
                                         ELSE IntAttr(tag[m.field])],
          ok |-> TRUE]

\* Mutant of MirrorFrom: the calls after a failed one are not made.
RECURSIVE MirrorUntilFailure(_, _, _, _, _)
MirrorUntilFailure(n, ok, k, tag, failing) ==
  IF k > Len(Mirror) \/ ~ok THEN [node |-> n, ok |-> ok]
  ELSE LET r == WriteAttrOpt(n, Mirror[k], tag, failing)
       IN MirrorUntilFailure(r.node, ok /\ r.ok, k + 1, tag, failing)

\* ok &= write_attr_..._opt(...), from the k-th call on.
RECURSIVE MirrorFrom(_, _, _, _, _)
MirrorFrom(n, ok, k, tag, failing) ==
  IF k > Len(Mirror) THEN [node |-> n, ok |-> ok]
  ELSE LET r == WriteAttrOpt(n, Mirror[k], tag, failing)
       IN MirrorFrom(r.node, ok /\ r.ok, k + 1, tag, failing)

\* WriteBfsAttributes: false and nothing written when the entry does not
\* exist or the node cannot be opened.
WriteBfsAttributes(n, tag, usable, failing) ==
  IF ~usable THEN [node |-> n, ok |-> FALSE]
  ELSE MirrorFrom(n, TRUE, 1, tag, failing)

\* A node and the TagData to mirror into it.
InitSpecAttrs ==
  /\ attrs \in NodeAttrs
  /\ attrsOnce = << >>
  /\ mirrored \in MirrorTags
  /\ nodeOk \in BOOLEAN
  /\ refused = << >>
  /\ returned = << >>
  /\ bpc = "start"
  /\ InitClient
  /\ InitHits
  /\ InitTags
  /\ InitFrames
  /\ InitCover
  /\ InitApply
  /\ InitShared
  /\ InitBuffer
  /\ NoWindow

NotAttrs == <<mvars, wvars, cvars, hvars, tvars, fvars, kvars, pvars, svars, ovars>>

MirrorOnce ==
  /\ bpc = "start"
  /\ \E failing \in Refusals :
       LET r == WriteBfsAttributes(attrs, mirrored, nodeOk, failing)
       IN /\ attrs' = r.node
          /\ attrsOnce' = r.node
          /\ refused' = <<failing>>
          /\ returned' = <<r.ok>>
  /\ bpc' = "once"
  /\ UNCHANGED <<mirrored, nodeOk, NotAttrs>>

MirrorAgain ==
  /\ bpc = "once"
  /\ \E failing \in Refusals :
       LET r == WriteBfsAttributes(attrs, mirrored, nodeOk, failing)
       IN /\ attrs' = r.node
          /\ refused' = Append(refused, failing)
          /\ returned' = Append(returned, r.ok)
  /\ bpc' = "twice"
  /\ UNCHANGED <<attrsOnce, mirrored, nodeOk, NotAttrs>>

NextAttrs == MirrorOnce \/ MirrorAgain

SpecAttrs == InitSpecAttrs /\ [][NextAttrs]_vars

\* The attribute a field is mirrored as: the string or the int32, none
\* when the string is empty or the number 0.
Mirrored(m) ==
  IF m.str THEN (IF mirrored[m.field] = "" THEN NoAttr
                 ELSE StrAttr(mirrored[m.field]))
  ELSE (IF mirrored[m.field] = 0 THEN NoAttr ELSE IntAttr(mirrored[m.field]))

\* C28: WriteBfsAttributes stores each mirrored field as its attribute when
\* the value is non-empty or non-zero and removes the attribute when it is
\* empty or zero, which succeeds also when the attribute is absent; every
\* field whose operation does not fail is treated, also after a failed one;
\* the call returns true exactly when no operation failed; and a second
\* call with the same TagData leaves the attributes a successful first call
\* left.
C28_MirrorsEveryField ==
  nodeOk /\ bpc \in {"once", "twice"} =>
    /\ \A k \in DOMAIN Mirror :
         Mirror[k].name \notin refused[Len(refused)] =>
           attrs[Mirror[k].name] = Mirrored(Mirror[k])
    /\ \A c \in DOMAIN returned : returned[c] = (refused[c] = {})
    /\ bpc = "twice" /\ returned[1] => attrs = attrsOnce

\* C28, witness: a call in which the operation on one attribute failed has
\* stored a later field, and a removal of an absent attribute succeeded.
C28_Witness ==
  /\ nodeOk
  /\ bpc = "twice"
  /\ returned = <<TRUE, FALSE>>
  /\ refused[2] = {"Media:Title"}
  /\ mirrored.mbTrackID # ""
  /\ attrs["Media:MBTrackID"] = StrAttr(mirrored.mbTrackID)
  /\ attrs["Media:Year"] = NoAttr

(***************************************************************************)
(* Part VIII.  TagSync::WriteEmbeddedCover and ExtractEmbeddedCover.       *)
(***************************************************************************)

MaxPictures == 2

\* sniff_mime compares the first 8 bytes.
SigLength == 8

\* The blobs: what the first bytes say and how many bytes there are.  No
\* data is data == nullptr.
Blobs ==
  {[null |-> TRUE, sig |-> "none", size |-> 0],
   [null |-> FALSE, sig |-> "none", size |-> 0]}
  \cup [null : {FALSE}, sig : {"png", "jpeg", "other"},
        size : {SigLength - 1, SigLength}]

\* The picture data another tagger stored.
OldData(sig) == [null |-> FALSE, sig |-> sig, size |-> SigLength + 1]

NoData == [null |-> FALSE, sig |-> "none", size |-> 0]

\* sniff_mime: "" stands for nullptr.
SniffMime(b) ==
  IF b.null \/ b.size < SigLength THEN ""
  ELSE IF b.sig = "png" THEN "image/png"
  ELSE IF b.sig = "jpeg" THEN "image/jpeg"
  ELSE ""

MimeOpts == {"", "image/png", "image/jpeg", "image/gif"}

\* An APIC frame, a FLAC picture block or an MP4 cover art.
Picture(type, mime, data) == [type |-> type, mime |-> mime, data |-> data]

\* The pictures a file may already hold: a front cover, a picture of
\* another type, and a picture without data.
OldPictures ==
  {Picture("FrontCover", "image/jpeg", OldData("jpeg")),
   Picture("BackCover", "image/png", OldData("png")),
   Picture("FrontCover", "image/jpeg", NoData)}

\* The items of a covr atom have no type: they are the cover.
OldCovers == {p \in OldPictures : p.type = "FrontCover"}

\* A file: its extension, the APIC frames of its ID3v2 tag, the picture
\* blocks TagLib::FLAC::File sees and the covr item TagLib::MP4::File sees.
\* A FLAC file may carry an ID3v2 tag in front of its stream.
MediaFile(ext, apic, pics, covr) ==
  [ext |-> ext, apic |-> apic, pics |-> pics, covr |-> covr]

MediaFiles ==
  {MediaFile("mp3", l, << >>, << >>) : l \in UpTo(MaxPictures, OldPictures)}
  \cup {MediaFile("flac", a, l, << >>) :
          a \in UpTo(1, OldCovers), l \in UpTo(MaxPictures, OldPictures)}
  \cup {MediaFile("mp4", << >>, << >>, l) : l \in UpTo(MaxPictures, OldCovers)}
  \cup {MediaFile("ogg", << >>, << >>, << >>)}

\* setMimeType(mime ? mime : "image/jpeg") of the MP3 and FLAC branches.
CoverMime(b, opt) ==
  LET mime == IF opt # "" THEN opt ELSE SniffMime(b)
  IN IF mime # "" THEN mime ELSE "image/jpeg"

\* Mutant of WithCover: the new picture is added to those present.
WithCoverAdded(l, removeOnly, pic) ==
  IF removeOnly THEN << >> ELSE Append(l, pic)

\* Every picture is removed; then the new one is added.
WithCover(l, removeOnly, pic) ==
  IF removeOnly THEN << >> ELSE <<pic>>

\* Mutant of Mp4Cover: a MIME type that is neither PNG nor JPEG is stored
\* as JPEG.
Mp4CoverAnyMime(f, b, removeOnly, mime) ==
  [ok |-> TRUE,
   file |-> [f EXCEPT !.covr =
               WithCover(@, removeOnly,
                         Picture("FrontCover",
                                 IF mime = "image/png" THEN mime
                                 ELSE "image/jpeg", b))]]

\* The MP4 branch up to save(): the covr item is replaced, or the call
\* returns false for a MIME type that is neither PNG nor JPEG.
Mp4Cover(f, b, removeOnly, mime) ==
  IF ~removeOnly /\ mime \notin {"image/png", "image/jpeg"}
    THEN [ok |-> FALSE, file |-> f]
  ELSE [ok |-> TRUE,
        file |-> [f EXCEPT !.covr =
                    WithCover(@, removeOnly, Picture("FrontCover", mime, b))]]

\* WriteEmbeddedCover(file, data, size, mimeOpt): the file afterwards and
\* the value returned.  io says whether the file opens and save() succeeds;
\* a failed call leaves the file as it was.
WriteEmbeddedCover(f, b, opt, io) ==
  LET removeOnly == b.null \/ b.size = 0
      mime == IF removeOnly THEN "" ELSE IF opt # "" THEN opt ELSE SniffMime(b)
      pic == Picture("FrontCover", CoverMime(b, opt), b)
      new == CASE f.ext = "mp3" ->
                    [ok |-> TRUE,
                     file |-> [f EXCEPT !.apic = WithCover(@, removeOnly, pic)]]
               [] f.ext = "mp4" -> Mp4Cover(f, b, removeOnly, mime)
               [] f.ext = "flac" ->
                    [ok |-> TRUE,
                     file |-> [f EXCEPT !.pics = WithCover(@, removeOnly, pic)]]
               [] OTHER -> [ok |-> FALSE, file |-> f]
  IN IF new.ok /\ io THEN new ELSE [ok |-> FALSE, file |-> f]

\* The first picture of l with data, as a sequence of at most one blob.
RECURSIVE FirstWithData(_)
FirstWithData(l) ==
  IF l = << >> THEN << >>
  ELSE IF Head(l).data.size > 0 THEN <<Head(l)>>
  ELSE FirstWithData(Tail(l))

\* pics[0], list.front(): the first picture, if it has data.
FrontWithData(l) ==
  IF l # << >> /\ Head(l).data.size > 0 THEN <<Head(l)>> ELSE << >>

\* ExtractEmbeddedCover: the picture returned, as a sequence of at most
\* one; empty when the function returns false.
ExtractedPicture(f) ==
  IF FirstWithData(f.apic) # << >> THEN FirstWithData(f.apic)
  ELSE IF f.ext = "flac" /\ FrontWithData(f.pics) # << >>
    THEN FrontWithData(f.pics)
  ELSE IF f.ext = "mp4" THEN FrontWithData(f.covr)
  ELSE << >>

ExtractEmbeddedCover(f) ==
  IF ExtractedPicture(f) = << >> THEN << >>
  ELSE <<ExtractedPicture(f)[1].data>>

\* A file, a blob and a MIME type.
InitSpecCover ==
  /\ media \in MediaFiles
  /\ mediaBefore = << >>
  /\ blob \in Blobs
  /\ mimeOpt \in MimeOpts
  /\ saves \in BOOLEAN
  /\ coverRet = << >>
  /\ outCover = << >>
  /\ kpc = "start"
  /\ InitClient
  /\ InitHits
  /\ InitTags
  /\ InitFrames
  /\ InitAttrs
  /\ InitApply
  /\ InitShared
  /\ InitBuffer
  /\ NoWindow

NotCover == <<mvars, wvars, cvars, hvars, tvars, fvars, bvars, pvars, svars, ovars>>

WriteCover ==
  /\ kpc = "start"
  /\ LET r == WriteEmbeddedCover(media, blob, mimeOpt, saves)
     IN /\ media' = r.file
        /\ coverRet' = <<r.ok>>
  /\ mediaBefore' = media
  /\ kpc' = "written"
  /\ UNCHANGED <<blob, mimeOpt, saves, outCover, NotCover>>

\* ExtractEmbeddedCover of a file as it was found or as it was written.
ExtractCover ==
  /\ kpc \in {"start", "written"}
  /\ outCover' = <<ExtractEmbeddedCover(media)>>
  /\ kpc' = "read"
  /\ UNCHANGED <<media, mediaBefore, blob, mimeOpt, saves, coverRet, NotCover>>

NextCover == WriteCover \/ ExtractCover

SpecCover == InitSpecCover /\ [][NextCover]_vars

\* The pictures of the container the file's extension names.
PicturesOf(f) ==
  CASE f.ext = "mp3" -> f.apic
    [] f.ext = "flac" -> f.pics
    [] f.ext = "mp4" -> f.covr
    [] OTHER -> << >>

FrontCovers(f) ==
  { j \in DOMAIN PicturesOf(f) : PicturesOf(f)[j].type = "FrontCover" }

RemoveOnly == blob.null \/ blob.size = 0

Unrecognised == ~RemoveOnly /\ mimeOpt = "" /\ SniffMime(blob) = ""

\* C24: WriteEmbeddedCover of a blob that is neither PNG nor JPEG, without
\* a MIME type, returns false for an MP4 file and leaves the file's cover
\* as it was; for an MP3 or FLAC file that can be saved it returns true and
\* the picture is stored as image/jpeg.
C24_UnknownSignature ==
  Unrecognised /\ coverRet # << >> =>
    /\ media.ext = "mp4" => coverRet = <<FALSE>> /\ media = mediaBefore
    /\ media.ext \in {"mp3", "flac"} /\ saves =>
         /\ coverRet = <<TRUE>>
         /\ PicturesOf(media) = <<Picture("FrontCover", "image/jpeg", blob)>>

\* C24, witness: the call failed for an MP4 file that holds a cover.
C24_Witness ==
  /\ Unrecognised
  /\ blob.sig = "other"
  /\ coverRet = <<FALSE>>
  /\ media.ext = "mp4"
  /\ saves
  /\ media.covr # << >>

\* The pictures with data the probes of ExtractEmbeddedCover look at, in
\* probe order: the ID3v2 tag, the FLAC picture blocks, the MP4 covr item.
Probed(f) ==
  SelectSeq(f.apic \o f.pics \o f.covr, LAMBDA p : p.data.size > 0)

\* C25: ExtractEmbeddedCover returns a front-cover picture of the file, the
\* one of the first format in the order MP3, FLAC, MP4 that yields a
\* picture with data, and nothing when no format yields one; after
\* WriteEmbeddedCover returned true it returns the blob written, and
\* nothing after a removal.
C25_FirstFrontCover ==
  kpc = "read" =>
    /\ outCover[1] # << >> =>
         \E p \in {ExtractedPicture(media)[1]} :
           /\ p.type = "FrontCover"
           /\ p.data = outCover[1][1]
    /\ outCover[1] = << >> => Probed(media) = << >>
    /\ coverRet = <<TRUE>> =>
         outCover[1] = IF RemoveOnly THEN << >> ELSE <<blob>>

\* The number and the total written into the frames of id.
PairOf(id) ==
  IF id = "TRCK" THEN [n |-> tagData.track, tot |-> tagData.trackTotal]
  ELSE [n |-> tagData.disc, tot |-> tagData.discTotal]

\* C29: _pairStr(n, tot) is empty when n and tot are 0, the number n when
\* only tot is 0, and "n/tot" when both are known; after a write the TRCK
\* and the TPOS field hold that string, and a field whose number is 0 and
\* whose total is unknown is erased from the tag.
C29_PairStr ==
  fpc \in {"once", "twice"} =>
    \A id \in {"TRCK", "TPOS"} :
      LET n == PairOf(id).n
          tot == PairOf(id).tot
      IN /\ n = 0 /\ tot = 0 =>
              /\ PairStr(n, tot) = << >>
              /\ id3.frames[id] = << >>
         /\ n > 0 /\ tot = 0 =>
              /\ PairStr(n, tot) = <<n>>
              /\ id3.frames[id] # << >> /\ id3.frames[id][1] = <<n>>
         /\ n > 0 /\ tot > 0 =>
              /\ PairStr(n, tot) = <<n, tot>>
              /\ id3.frames[id] # << >> /\ id3.frames[id][1] = <<n, tot>>

\* A step of FetchCover or of _FetchUrl leaves fLastCall alone: the time
\* since the last call does not go down.
C27_Step == op = "cover" /\ cpc # "idle" => sinceLastCall' >= sinceLastCall

\* C27: requests to the cover host are issued directly.  No step of
\* FetchCover or _FetchUrl waits for the rate limit or sets fLastCall, so
\* that a metadata query after a cover fetch waits no longer than without
\* the fetch.
C27_CoverFetchesUnthrottled == [][C27_Step]_vars

\* A step of an apply thread whose generation is no longer the window's
\* writes to no file; the item-updated event goes out with the write.
C30_Step ==
  \A w \in DOMAIN workers :
    (/\ workers[w].kind = "apply"
     /\ workers[w].gen # fMbSearchGeneration
     /\ workers'[w] # workers[w])
      => /\ disk' = disk
         /\ workers'[w].wrote = workers[w].wrote

\* C30: once the generation has moved on from the value an apply thread
\* captured, the thread has no further side effect: it writes no tags, no
\* cover and no attributes and posts no item-updated event, also when the
\* generation moves while the thread is in its write loop.
C30_StaleWorkerWritesNothing == [][C30_Step]_vars

(***************************************************************************)
(* Part IX.  A mapping applied to the files: MSG_MATCH_RESULT and the      *)
(* confident loop of the apply thread, each writing tags, cover and        *)
(* attributes through TagSync.                                             *)
(***************************************************************************)

MaxApplied == 2

TrackTitles == <<"T1", "T2", "T3">>

RecordingIds == <<"r1", "r2", "r3">>

\* An MBRelease of n tracks, as GetReleaseDetails fills it.
AppliedRelease(n) ==
  [albumArtist |-> "AA", album |-> "Al", year |-> 2001, releaseId |-> "rel",
   tracks |-> [k \in 0 .. n - 1 |->
                 [title |-> TrackTitles[k + 1], track |-> k + 1, disc |-> 1,
                  recordingId |-> RecordingIds[k + 1]]]]

AppliedReleases == { AppliedRelease(n) : n \in 1 .. MaxApplied }

\* coverBlob: empty when no cover was fetched, else what the host sent.
CoverBlobs ==
  {NoData} \cup [null : {FALSE}, sig : {"jpeg", "other"}, size : {SigLength}]

\* fileToTrackMap: NoTrack or an index; the mapping a MatcherWindow sends
\* may also hold an index the release has no track for.
Mappings == Vec(MaxApplied, NoTrack .. MaxApplied)

\* The container TagLib opens for an extension.
TagFormat(ext) ==
  IF ext = "mp3" THEN "mp3" ELSE IF ext = "mp4" THEN "mp4" ELSE "other"

\* A file on disk: untouched by any tagger, or tagged with a cover and
\* mirrored attributes.
StoredFile(ext, old) ==
  [tags |-> IF old THEN Tagged(TagFormat(ext)) ELSE Blank(TagFormat(ext)),
   media |-> LET l == IF old
                        THEN <<Picture("FrontCover", "image/jpeg",
                                       OldData("jpeg"))>>
                        ELSE << >>
             IN CASE ext = "mp3" -> MediaFile(ext, l, << >>, << >>)
                  [] ext = "flac" -> MediaFile(ext, << >>, l, << >>)
                  [] OTHER -> MediaFile(ext, << >>, << >>, l),
   node |-> CHOOSE n \in NodeAttrs : (n["Media:Title"] = NoAttr) = ~old]

StoredFiles == { StoredFile(ext, old) : ext \in {"mp3", "mp4", "flac"},
                                        old \in BOOLEAN }

\* The calls the file system refuses: none, or one write of one file.
WriteKinds == {"tags", "cover", "attrs"}

Denials ==
  {{}} \cup { {<<i, k>>} : i \in 0 .. MaxApplied - 1, k \in WriteKinds }

\* TagSync::ReadTags: the tags of the file, and the audio properties.
ReadAll(st) ==
  LET r == ReadTags(st.tags)
  IN [f \in MirrorFields |->
        IF f \in TextFields \cup NumFields THEN r[f]
        ELSE IF f = "acoustId" THEN ""
        ELSE MirrorValue(f)]

\* Mutant of ManualTagData: the album artist is left as it was read.
ManualTagDataKeepsAlbumArtist(old, rel, trk) ==
  [old EXCEPT !.artist = rel.albumArtist, !.album = rel.album,
              !.title = trk.title, !.year = rel.year, !.track = trk.track,
              !.trackTotal = Cardinality(DOMAIN rel.tracks),
              !.disc = trk.disc,
              !.mbAlbumID = rel.releaseId, !.mbTrackID = trk.recordingId]

\* MSG_MATCH_RESULT: the fields set from fPendingRelease and its track.
ManualTagData(old, rel, trk) ==
  [old EXCEPT !.artist = rel.albumArtist, !.album = rel.album,
              !.title = trk.title, !.year = rel.year, !.track = trk.track,
              !.trackTotal = Cardinality(DOMAIN rel.tracks),
              !.disc = trk.disc, !.albumArtist = rel.albumArtist,
              !.mbAlbumID = rel.releaseId, !.mbTrackID = trk.recordingId]

\* The confident loop: the fields set from rel and its track.
AutoTagData(old, rel, trk) ==
  [old EXCEPT !.artist = rel.albumArtist, !.album = rel.album,
              !.title = trk.title, !.year = rel.year, !.track = trk.track,
              !.trackTotal = Cardinality(DOMAIN rel.tracks),
              !.disc = trk.disc, !.albumArtist = rel.albumArtist,
              !.mbAlbumID = rel.releaseId, !.mbTrackID = trk.recordingId]

\* WriteTags, WriteEmbeddedCover if the blob has bytes, WriteBfsAttributes:
\* the file afterwards and the calls that returned false.  No result is
\* looked at, and each call is made whatever the one before returned.
WriteAll(st, tag, cover, refusals) ==
  LET tagsOk == "tags" \notin refusals
      c == IF cover.size > 0
             THEN WriteEmbeddedCover(st.media, cover, "",
                                     "cover" \notin refusals)
             ELSE [ok |-> TRUE, file |-> st.media]
      a == WriteBfsAttributes(st.node, tag, "attrs" \notin refusals, {})
  IN [file |-> [tags |-> IF tagsOk THEN WriteTagsToFile(st.tags, tag)
                         ELSE st.tags,
                media |-> c.file,
                node |-> a.node],
      failed |-> {k \in WriteKinds :
                    \/ k = "tags" /\ ~tagsOk
                    \/ k = "cover" /\ ~c.ok
                    \/ k = "attrs" /\ ~a.ok}]

RefusedFor(i) == { k \in WriteKinds : <<i, k>> \in denied }

\* MSG_MATCH_RESULT from entry i on: an entry is written if its track_idx
\* is an index of fPendingRelease.tracks.
RECURSIVE ManualFrom(_, _, _)
ManualFrom(fs, failed, i) ==
  IF i \notin DOMAIN fs THEN [files |-> fs, failed |-> failed]
  ELSE LET trackIdx == applied.mapping[i]
       IN IF trackIdx >= 0 /\ trackIdx < Cardinality(DOMAIN applied.rel.tracks)
            THEN LET w == WriteAll(fs[i],
                                   ManualTagData(ReadAll(fs[i]), applied.rel,
                                                 applied.rel.tracks[trackIdx]),
                                   applied.cover, RefusedFor(i))
                 IN ManualFrom([fs EXCEPT ![i] = w.file],
                               failed \cup { <<i, k>> : k \in w.failed },
                               i + 1)
          ELSE ManualFrom(fs, failed, i + 1)

\* The mappings the apply thread can hold: every index is one of rel.tracks.
InRange ==
  \A i \in DOMAIN applied.mapping :
    applied.mapping[i] < Cardinality(DOMAIN applied.rel.tracks)

\* The files, a release, a cover and a mapping.
InitSpecApply ==
  /\ stored \in Vec(MaxApplied, StoredFiles)
  /\ manualFiles = stored
  /\ autoFiles = stored
  /\ applied \in [rel : AppliedReleases, cover : CoverBlobs,
                  mapping : Mappings]
  /\ denied \in Denials
  /\ failedWrites = [manual |-> {}, auto |-> {}]
  /\ reported = [manual |-> "", auto |-> ""]
  /\ ppc = <<"manual">>
  /\ InitClient
  /\ InitHits
  /\ InitTags
  /\ InitFrames
  /\ InitAttrs
  /\ InitCover
  /\ InitShared
  /\ InitBuffer
  /\ NoWindow

NotApply == <<mvars, wvars, cvars, hvars, tvars, fvars, bvars, kvars, svars, ovars>>

\* MSG_MATCH_RESULT
ManualApply ==
  /\ ppc = <<"manual">>
  /\ LET r == ManualFrom(manualFiles, {}, 0)
     IN /\ manualFiles' = r.files
        /\ failedWrites' = [failedWrites EXCEPT !.manual = r.failed]
  /\ reported' = [reported EXCEPT
                    !.manual = "Metadata applied successfully (Manual)."]
  /\ ppc' = IF InRange THEN <<"auto", 0>> ELSE <<"done">>
  /\ UNCHANGED <<stored, autoFiles, applied, denied, NotApply>>

\* The confident loop, file i: an entry below 0 is passed over.
AutoApplyFile ==
  /\ ppc[1] = "auto"
  /\ ppc[2] \in DOMAIN autoFiles
  /\ LET i == ppc[2]
         tIdx == applied.mapping[i]
     IN IF tIdx < 0
          THEN UNCHANGED <<autoFiles, failedWrites>>
          ELSE LET w == WriteAll(autoFiles[i],
                                 AutoTagData(ReadAll(autoFiles[i]),
                                             applied.rel,
                                             applied.rel.tracks[tIdx]),
                                 applied.cover, RefusedFor(i))
               IN /\ autoFiles' = [autoFiles EXCEPT ![i] = w.file]
                  /\ failedWrites' =
                       [failedWrites EXCEPT
                          !.auto = @ \cup { <<i, k>> : k \in w.failed }]
  /\ ppc' = <<"auto", ppc[2] + 1>>
  /\ UNCHANGED <<stored, manualFiles, applied, denied, reported, NotApply>>

\* After the loop: MSG_STATUS_UPDATE with the success text.
AutoFinish ==
  /\ ppc[1] = "auto"
  /\ ppc[2] \notin DOMAIN autoFiles
  /\ reported' = [reported EXCEPT
                    !.auto = "Metadata applied successfully (Auto-Match)."]
  /\ ppc' = <<"done">>
  /\ UNCHANGED <<stored, manualFiles, autoFiles, applied, denied,
                 failedWrites, NotApply>>

NextApply == ManualApply \/ AutoApplyFile \/ AutoFinish

SpecApply == InitSpecApply /\ [][NextApply]_vars

\* The entries of the mapping that name a track of the release.
Mapped ==
  { i \in DOMAIN applied.mapping :
      /\ applied.mapping[i] # NoTrack
      /\ applied.mapping[i] \in DOMAIN applied.rel.tracks }

\* C22: for the same release, cover and mapping, MSG_MATCH_RESULT leaves
\* every file with the tags, the embedded cover and the attributes the
\* confident loop of the apply thread leaves it with; a file whose entry is
\* the unassigned sentinel or no index of the release's tracks is written
\* by neither.  (The mapping of the apply thread holds no index out of
\* range.)
C22_ManualAsAuto ==
  /\ ppc = <<"done">> /\ reported.auto # "" => manualFiles = autoFiles
  /\ ppc # <<"manual">> =>
       \A i \in DOMAIN stored \ Mapped :
         manualFiles[i] = stored[i] /\ autoFiles[i] = stored[i]

\* C22, witness: both paths have written a mapped file, with its cover, and
\* passed over an unassigned one.
C22_Witness ==
  /\ ppc = <<"done">>
  /\ reported.auto # ""
  /\ applied.cover.size > 0
  /\ failedWrites.auto = {}
  /\ \E i \in Mapped : autoFiles[i] # stored[i] /\ manualFiles[i] # stored[i]
  /\ \E i \in DOMAIN stored : applied.mapping[i] = NoTrack

\* The texts that report an apply as done.
SuccessTexts ==
  {"Metadata applied successfully (Manual).",
   "Metadata applied successfully (Auto-Match)."}

\* C26: when a tag write, a cover write or an attribute mirror of an apply
\* returned false, the apply is not reported as a success; what the other
\* calls wrote stays in the files.
C26_FailureReported ==
  failedWrites.auto # {} => reported.auto \notin SuccessTexts

\* The first track of the release, in order, that is unused before the step
\* and carries the number n; NoTrack if there is none or n is 0.
C33_First(n) ==
  LET S == {k \in DOMAIN tracks : ~trackUsed[k] /\ tracks[k].track = n}
  IN IF n = 0 \/ S = {} THEN NoTrack ELSE CHOOSE k \in S : \A j \in S : k <= j

\* The track k is within 15 seconds of the file f.
C33_Near(k, f) ==
  k # NoTrack /\ WithinTolerance(tracks[k].length, f.lengthSec)

\* The file the step of pass 1 treats, and what it is mapped to.
C33_StepOf(i) == mpc = <<"pass1", i>> /\ mpc' # mpc

\* C33 (as claimed): a step of pass 1 maps its file whenever some unused
\* track carries the file's number (the embedded one, else the one of the
\* file name) and is less than 15 seconds away from the file; a track 15
\* seconds or more away is never taken.
C33_SomeTrackStep ==
  \A i \in DOMAIN fileToTrackMap :
    C33_StepOf(i) =>
      LET f == td'[i]
          n == IF f.track > 0 THEN f.track ELSE f.fnTrack
      IN /\ (\E k \in DOMAIN tracks :
               ~trackUsed[k] /\ tracks[k].track = n /\ C33_Near(k, f))
              => fileToTrackMap'[i] # NoTrack
         /\ fileToTrackMap'[i] # NoTrack => C33_Near(fileToTrackMap'[i], f)

C33_MatchedWheneverSomeTrackFits == [][C33_SomeTrackStep]_vars

\* C33 (amended): a step of pass 1 maps its file to the first unused track
\* of its embedded number if that track is less than 15 seconds away, else
\* to the first unused track of the number in its name if that one is, and
\* else leaves it unmapped; later tracks of the same number are not tried.
C33_FirstTrackStep ==
  \A i \in DOMAIN fileToTrackMap :
    C33_StepOf(i) =>
      LET f == td'[i]
          e == C33_First(f.track)
          n == C33_First(f.fnTrack)
      IN fileToTrackMap'[i] =
           IF C33_Near(e, f) THEN e
           ELSE IF C33_Near(n, f) THEN n
           ELSE NoTrack

C33_MatchedWhenFirstTrackFits == [][C33_FirstTrackStep]_vars

\* C33, witness: the second file was mapped by the number in its name after
\* the first unused track of its embedded number was too far away.
C33_Witness ==
  /\ mpc = <<"pass2", 0>>
  /\ nFiles = 2
  /\ td[1].track > 0
  /\ td[1].fnTrack > 0
  /\ td[1].fnTrack # td[1].track
  /\ fileToTrackMap[1] # NoTrack
  /\ fileToTrackMap[0] # NoTrack
  /\ tracks[fileToTrackMap[1]].track = td[1].fnTrack
  /\ durationMismatch

\* What the first source of a field gives: the track of TagLib::Tag, the
\* TRACKTOTAL and DISCTOTAL properties, the DISCNUMBER property.
C34_First(f) ==
  [track |-> ToUInt(f.num["track"]),
   trackTotal |-> ToUInt(GetTL(f, <<"TRACKTOTAL", "TOTALTRACKS">>)),
   disc |-> ToUInt(GetTL(f, <<"DISCNUMBER", "TPOS">>)),
   discTotal |-> ToUInt(GetTL(f, <<"DISCTOTAL", "TOTALDISCS">>))]

\* C34: ReadTags never replaces a value an earlier source gave: the track,
\* the track total, the disc and the disc total it returns are those of the
\* first source that has one, whatever the total of a slash-separated pair,
\* a frame or an atom says.
C34_FirstSourceWins ==
  tpc \in {"read", "found"} =>
    \A k \in DOMAIN C34_First(file) :
      C34_First(file)[k] # 0 => readBack[k] = C34_First(file)[k]

\* The fields C35 names.
C35_Fields ==
  {"albumArtist", "composer", "mbAlbumID", "mbArtistID", "mbTrackID",
   "track", "trackTotal", "disc", "discTotal"}

\* C35: in every format, a field written as the empty string or as zero
\* leaves no stored value: whatever the file held before, ReadTags after
\* WriteTags returns the field empty or zero.
C35_EmptyFieldErased ==
  tpc = "read" =>
    \A k \in C35_Fields :
      written[k] = EmptyTag[k] => readBack[k] = EmptyTag[k]

(***************************************************************************)
(* Part X.  Two worker threads of the window in metadata calls on the one  *)
(* MusicBrainzClient (fMbClient): _RespectRateLimit, the stamp of          *)
(* fLastCall, and RunQueryWithTimeout with its query thread under          *)
(* ScopedSilence.  Time passes in ticks of 100 ms, the period of one poll. *)
(* fLastCall is read and written without a lock; each read and each write  *)
(* is one step here.  kill_thread ends a thread where it stands and runs   *)
(* no destructor; a BLocker is not released by the death of its holder.    *)
(***************************************************************************)

\* How many calls one worker makes.
MaxCalls == 1

\* The apply worker and the cover-fetch worker.
Callers == {"apply", "cover"}

\* A worker outside the client; calls counts the calls it has made.
IdleCaller ==
  [pc |-> "idle", snooze |-> 0, spolls |-> 0, query |-> "none",
   cancel |-> FALSE, calls |-> 0]

InitSpecShared ==
  /\ callers = [c \in Callers |-> IdleCaller]
  /\ lastCallAge = RateTicks
  /\ startAge = RateTicks
  /\ fLocker = "free"
  /\ InitClient
  /\ InitHits
  /\ InitTags
  /\ InitFrames
  /\ InitAttrs
  /\ InitCover
  /\ InitApply
  /\ InitBuffer
  /\ NoWindow

NotShared == <<mvars, wvars, cvars, hvars, tvars, fvars, bvars, kvars, pvars, ovars>>

\* GetReleaseDetails is entered by a worker whose generation is current.
SharedCall(c) ==
  /\ callers[c].pc = "idle"
  /\ callers[c].calls < MaxCalls
  /\ callers' = [callers EXCEPT ![c] =
                   [@ EXCEPT !.pc = "rate", !.cancel = FALSE,
                             !.query = "none", !.calls = @ + 1]]
  /\ UNCHANGED <<lastCallAge, startAge, fLocker, NotShared>>

\* The window advances the generation the worker was started with; the
\* poll loop is where the call looks at it.
SharedCancel(c) ==
  /\ callers[c].pc = "poll"
  /\ ~callers[c].cancel
  /\ callers' = [callers EXCEPT ![c].cancel = TRUE]
  /\ UNCHANGED <<lastCallAge, startAge, fLocker, NotShared>>

\* _RespectRateLimit: reads fLastCall and decides how long to snooze.
SharedRateLimit(c) ==
  /\ callers[c].pc = "rate"
  /\ callers' = [callers EXCEPT ![c] =
                   IF lastCallAge < RateTicks
                     THEN [@ EXCEPT !.pc = "snooze",
                                    !.snooze = RateTicks - lastCallAge]
                     ELSE [@ EXCEPT !.pc = "stamp"]]
  /\ UNCHANGED <<lastCallAge, startAge, fLocker, NotShared>>

\* snooze returns.
SharedWake(c) ==
  /\ callers[c].pc = "snooze"
  /\ callers[c].snooze = 0
  /\ callers' = [callers EXCEPT ![c].pc = "stamp"]
  /\ UNCHANGED <<lastCallAge, startAge, fLocker, NotShared>>

\* fLastCall = system_time(), then RunQueryWithTimeout spawns and resumes
\* the query thread.
SharedStamp(c) ==
  /\ callers[c].pc = "stamp"
  /\ lastCallAge' = 0
  /\ callers' = [callers EXCEPT ![c] =
                   [@ EXCEPT !.pc = "poll", !.spolls = 0, !.query = "lock"]]
  /\ UNCHANGED <<startAge, fLocker, NotShared>>

\* The query thread: ScopedSilence takes fLocker and q.Query sends the
\* request.
QueryLock(c) ==
  /\ callers[c].query = "lock"
  /\ fLocker = "free"
  /\ fLocker' = "held"
  /\ startAge' = 0
  /\ callers' = [callers EXCEPT ![c].query = "sent"]
  /\ UNCHANGED <<lastCallAge, NotShared>>

\* q.Query returns or throws; ~ScopedSilence releases fLocker and the
\* thread exits.
QueryExit(c) ==
  /\ callers[c].query = "sent"
  /\ fLocker' = "free"
  /\ callers' = [callers EXCEPT ![c].query = "done"]
  /\ UNCHANGED <<lastCallAge, startAge, NotShared>>

\* kill_thread(tid): fLocker as the thread leaves it.
LockAfterKill(c) == IF callers[c].query = "sent" THEN "orphaned" ELSE fLocker

\* The poll loop finds shouldCancel() true.
SharedCancelled(c) ==
  /\ callers[c].pc = "poll"
  /\ callers[c].cancel
  /\ fLocker' = LockAfterKill(c)
  /\ callers' = [callers EXCEPT ![c] =
                   [IdleCaller EXCEPT !.calls = callers[c].calls]]
  /\ UNCHANGED <<lastCallAge, startAge, NotShared>>

\* wait_for_thread_etc returns B_OK: the thread has exited.
SharedJoin(c) ==
  /\ callers[c].pc = "poll"
  /\ callers[c].query = "done"
  /\ callers' = [callers EXCEPT ![c] =
                   [IdleCaller EXCEPT !.calls = callers[c].calls]]
  /\ UNCHANGED <<lastCallAge, startAge, fLocker, NotShared>>

\* The loop ends after PollLimit polls: kill_thread and the Timeout
\* exception, which the caller's handler turns into an empty release.
SharedTimeout(c) ==
  /\ callers[c].pc = "poll"
  /\ callers[c].spolls = PollLimit
  /\ callers[c].query # "done"
  /\ fLocker' = LockAfterKill(c)
  /\ callers' = [callers EXCEPT ![c] =
                   [IdleCaller EXCEPT !.calls = callers[c].calls]]
  /\ UNCHANGED <<lastCallAge, startAge, NotShared>>

\* A rate-limit interval is running: some worker snoozes, or fLastCall or
\* the last request is younger than 1.1 s.
ShortTimer ==
  \/ lastCallAge < RateTicks
  \/ startAge < RateTicks
  \/ \E c \in Callers : callers[c].pc = "snooze"

\* The workers in the poll loop.
Polling == {c \in Callers : callers[c].pc = "poll"}

\* The ticks until the next event of the clock: one while a rate-limit
\* interval is running, otherwise those left to the first poll loop to end.
Leap ==
  IF ShortTimer \/ Polling = {} THEN 1
  ELSE CHOOSE d \in 1..PollLimit :
         /\ \E c \in Polling : d = PollLimit - callers[c].spolls
         /\ \A c \in Polling : d <= PollLimit - callers[c].spolls

\* Time passes: a snooze runs down, the poll loops count their polls of
\* 100 ms.
SharedTick ==
  /\ \E c \in Callers : callers[c].pc # "idle"
  /\ \A c \in Callers :
       /\ ~(callers[c].pc = "snooze" /\ callers[c].snooze = 0)
       /\ ~(callers[c].pc = "poll" /\ callers[c].spolls = PollLimit)
  /\ lastCallAge' = Min(lastCallAge + Leap, RateTicks)
  /\ startAge' = Min(startAge + Leap, RateTicks)
  /\ callers' = [c \in Callers |->
                   IF callers[c].pc = "snooze"
                     THEN [callers[c] EXCEPT !.snooze = @ - 1]
                   ELSE IF callers[c].pc = "poll"
                     THEN [callers[c] EXCEPT !.spolls = @ + Leap]
                   ELSE callers[c]]
  /\ UNCHANGED <<fLocker, NotShared>>

NextShared ==
  \/ \E c \in Callers :
       \/ SharedCall(c)
       \/ SharedCancel(c)
       \/ SharedRateLimit(c)
       \/ SharedWake(c)
       \/ SharedStamp(c)
       \/ QueryLock(c)
       \/ QueryExit(c)
       \/ SharedCancelled(c)
       \/ SharedJoin(c)
       \/ SharedTimeout(c)
  \/ SharedTick

SpecShared == InitSpecShared /\ [][NextShared]_vars

\* A query is sent in this step.
Sends == \E c \in Callers : callers[c].query = "lock" /\ callers'[c].query = "sent"

\* C31: with two workers on the one client, any two metadata requests start
\* at least 1.1 s apart, in every interleaving.
C31_Step == Sends => startAge >= RateTicks
C31_RequestsSpaced == [][C31_Step]_vars

\* C32: a query thread killed on cancellation or timeout never leaves
\* ScopedSilence::fLocker held, so that a later query can take it.
C32_LockNeverOrphaned == fLocker # "orphaned"

\* MSG_MATCH_RESULT of the matcher m is handled in this step.
C36_Result(m) == m \in matchers /\ m \notin matchers'

\* C36: the release and the cover applied when a manual match result
\* arrives are those of the apply that opened the matcher, whatever applies,
\* searches and cancels come in between.
C36_Step ==
  \A m \in matchers :
    C36_Result(m) =>
      /\ fPendingRelease = m.release
      /\ fPendingCoverBlob = m.cover
C36_ResultUsesOwnRelease == [][C36_Step]_vars

\* The thread w, whose release lookup failed, takes a step.
C37_FailedStep(w) ==
  /\ w \in DOMAIN workers
  /\ workers[w].kind = "apply"
  /\ workers[w].pc \in {"a_chk_cov2", "a_write", "a_matcher", "a_pending",
                        "a_finish"}
  /\ workers[w].rel = FailedRelease
  /\ workers'[w] # workers[w]

\* C37: an apply whose release lookup failed (no tracks, empty album and
\* artist) changes the tags of no file, in track mode and in album mode.
C37_Step == \A w \in WorkerIds : C37_FailedStep(w) => disk' = disk
C37_FailedLookupWritesNothing == [][C37_Step]_vars

\* The cover thread w was started by the last message of an apply thread
\* whose generation is no longer the window's.
C38_Chained(w) ==
  /\ w \in DOMAIN workers
  /\ workers[w].kind = "cover"
  /\ workers[w].parent \in DOMAIN workers
  /\ workers[workers[w].parent].gen # fMbSearchGeneration

\* C38: the cover fetch an apply thread requests at its end inherits the
\* cancellation of the apply: once the generation has moved on from the
\* apply's, the chained fetch issues no network request and delivers no
\* cover.
C38_Step ==
  \A w \in WorkerIds :
    C38_Chained(w) =>
      /\ workers'[w].net = workers[w].net
      /\ w \in coverReplies' => w \in coverReplies
C38_ChainedFetchCancelled == [][C38_Step]_vars

\* C39: FetchCover returns true only with at least one byte of a 200
\* response in the output buffer, and whenever it returns false (another
\* status, an empty body, the redirect limit, a timeout, cancellation at its
\* entry) the buffer is empty.
C39_BufferMatchesResult ==
  Returns("cover") =>
    /\ result = "data" =>
         /\ Len(outBytes) >= 1
         /\ \A b \in DOMAIN outBytes : outBytes[b] = 200
    /\ result = "empty" => outBytes = << >>

\* FetchCover, not cancelled, has returned false on a 404 and left the
\* buffer empty.
C39_Witness ==
  /\ Returns("cover")
  /\ result = "empty"
  /\ ~cancel
  /\ fetches # << >>
  /\ fetches[Len(fetches)].status = 404
  /\ outBytes = << >>

\* The steps of the thread that is inside the client: every one of them is
\* enabled by the thread's own position alone, and each snooze and each
\* wait_for_thread_etc carries a timeout, so the scheduler lets the thread
\* take its next step whatever the network does.
WorkerStep ==
  Entry \/ RateLimit \/ Issue \/ Attempt \/ Poll \/ PollTimeout \/ Pause
  \/ FetchUrl

SpecClientLive == SpecClient /\ WF_vars(WorkerStep)

\* C40: every worker eventually terminates whatever the network does,
\* because each wait is bounded: every operation of the client a worker
\* enters returns, so that the search worker goes on to post its completion
\* event; the window is in none of these steps.
C40_EveryCallReturns == (cpc # "idle") ~> (cpc = "idle")

\* SearchRecording has returned after the network stayed silent through all
\* its attempts.
C40_Witness ==
  /\ Returns("search")
  /\ attempts = SearchRetries
  /\ failure = "Timeout"
  /\ killed
  /\ ~cancel

====
